---- MODULE Spec2Model ----
(***************************************************************************)
(* Model of tachys/src/async_views/mod.rs: the Suspend node and the        *)
(* SuspenseBoundary node, their shared state containers, the background    *)
(* tasks they spawn on the single-threaded executor, and the DOM content   *)
(* they mount.                                                             *)
(*                                                                         *)
(* One node is under test in a behaviour.  Init fixes its type (kind) and  *)
(* its const TRANSITION parameter; the first action builds (or hydrates)   *)
(* it.  The computation given to build is number 0, the computation given  *)
(* to the n-th rebuild is number n; computation k resolves to the value    *)
(* Output(k), so the results of different computations can be told apart.  *)
(*                                                                         *)
(* The executor is cooperative: a synchronous handler runs from one await  *)
(* point to the next without interleaving.  pc = "idle" says no handler is *)
(* running; any other pc value is the position inside the one handler that *)
(* is running, and only that handler can step.                             *)
(***************************************************************************)
EXTENDS Integers, Sequences, FiniteSets, TLC

\* Number of rebuild calls a behaviour may make.
MaxRebuilds == 2

\* Computations (and the tasks awaiting them): 0 is build's, n is the n-th rebuild's.
FutIds == 0..MaxRebuilds

\* The value computation k resolves to (0 is what a state renders before it
\* is built).
Output(k) == k + 1

VARIABLES
    kind,         \* "Suspend" or "Boundary": the type of the node under test;
                  \* "Html": a Suspend node emitted into a String;
                  \* "Stream": a streaming pass over sibling Suspend nodes;
                  \* "Nested": a SuspenseBoundary whose children are a SuspenseBoundary
    TRANSITION,   \* the node's const TRANSITION parameter
    OUT_OF_ORDER, \* the const OUT_OF_ORDER parameter of the streaming pass
    nesting,      \* node 1 of the streaming pass is nested in node 0's output
    fallback,     \* "Some" or "None": the fallback of the node value last given to
                  \* build or rebuild (SuspenseBoundary's is an Option)
    phase,        \* "new" (constructed), "live" (state built, or pass under way),
                  \* "streaming", "rendered" (HTML written), "aborted" (panicked in
                  \* expect), or the name of the todo!() operation that panicked
    attached,     \* the state's marker is in the document
    nRebuilds,    \* rebuild calls made so far
    fut,          \* computation k: "absent", "pending", "complete", "taken"
    syncPolls,    \* number of now_or_never polls of computation k
    taskPolls,    \* number of polls of computation k made by its task
    owner,        \* who holds computation k: "none", "caller", "task"
    task,         \* task k: "none", "queued", "awaiting", "locked", "done"
    pc,           \* position of the running handler, "idle" if none
    cur,          \* the task that is running when pc is a task position
    guard,        \* holder of the container's write guard: "free", "caller", "task"
    blocked,      \* a party asked for the guard while it was held
    mode,         \* Suspend's EitherState: "Unbuilt", "Fallback", "Ready"
    ready,        \* Suspend's ready state: <<>> or <<id>>
    children,     \* SuspenseBoundaryStateInner.children: <<>> (None) or <<id>>
    old_children, \* the local old_children of SuspenseBoundary::rebuild
    content,      \* ready state id -> the value it currently renders
    fbBuilt,      \* the fallback has been built
    fbMounted,    \* the fallback state is in the document
    mounted,      \* the ready states that are in the document
    lastWriter,   \* <<k>>: task k was the last to write the container
    emitted,      \* number of sibling nodes the streaming pass has emitted
    nextId,       \* the StreamBuilder's identity counter
    fragId,       \* node k -> the identity its deferred fragment carries (0: none)
    buf,          \* the StreamBuilder's chunks not yet streamed, in order
    ooo,          \* the out-of-order fragments the stream is waiting for
    out,          \* what has been streamed, in order
    nested_fut,   \* the computation of the nested boundary's content: "absent",
                  \* "pending", "complete", "taken"
    nested_task,  \* the nested boundary's task: "none", "queued", "awaiting", "done"
    nested_built, \* the nested boundary's state has been built
    nested_children, \* the nested state's children slot: "None" or "Some"
    nested_mounted   \* which of the nested state's "fallback" and "children"
                     \* are in the document

vars == <<kind, TRANSITION, fallback, nesting, phase, attached, nRebuilds, fut, syncPolls,
          taskPolls, owner, task, pc, cur, guard, blocked, mode, ready,
          children, old_children, content, fbBuilt, fbMounted, mounted,
          lastWriter, OUT_OF_ORDER, emitted, nextId, fragId, buf, ooo, out,
          nested_fut, nested_task, nested_built, nested_children,
          nested_mounted>>

\* the computations, who polls them, who owns them
futVars == <<fut, syncPolls, taskPolls, owner>>
\* Suspend's container
eitherVars == <<mode, ready>>
\* SuspenseBoundary's container
innerVars == <<children, old_children>>
\* what is in the document
domVars == <<content, fbBuilt, fbMounted, mounted>>
\* the streaming pass
streamVars == <<OUT_OF_ORDER, nesting, emitted, nextId, fragId, buf, ooo, out>>
\* the SuspenseBoundary nested in the boundary under test
nestVars == <<nested_fut, nested_task, nested_built, nested_children,
              nested_mounted>>

Init ==
    /\ kind \in {"Suspend", "Boundary", "Stream", "Nested", "Html"}
    /\ TRANSITION \in BOOLEAN
    /\ OUT_OF_ORDER \in (IF kind = "Stream" THEN BOOLEAN ELSE {FALSE})
    /\ nesting \in (IF kind = "Stream" /\ ~OUT_OF_ORDER THEN BOOLEAN ELSE {FALSE})
    /\ fallback \in (IF kind = "Boundary" THEN {"Some", "None"} ELSE {"Some"})
    /\ phase = "new"
    /\ attached = FALSE
    /\ nRebuilds = 0
    /\ fut = [k \in FutIds |-> "absent"]
    /\ syncPolls = [k \in FutIds |-> 0]
    /\ taskPolls = [k \in FutIds |-> 0]
    /\ owner = [k \in FutIds |-> "none"]
    /\ task = [k \in FutIds |-> "none"]
    /\ pc = "idle"
    /\ cur = 0
    /\ guard = "free"
    /\ blocked = FALSE
    /\ mode = "Unbuilt"
    /\ ready = <<>>
    /\ children = <<>>
    /\ old_children = <<>>
    /\ content = [k \in FutIds |-> 0]
    /\ fbBuilt = FALSE
    /\ fbMounted = FALSE
    /\ mounted = {}
    /\ lastWriter = <<>>
    /\ emitted = 0
    /\ nextId = 0
    /\ fragId = [k \in FutIds |-> 0]
    /\ buf = <<>>
    /\ ooo = {}
    /\ out = <<>>
    /\ nested_fut \in (IF kind = "Nested" THEN {"pending", "complete"}
                       ELSE {"absent"})
    /\ nested_task = "none"
    /\ nested_built = FALSE
    /\ nested_children = "None"
    /\ nested_mounted = {}

\* The operations whose body is todo!(): the phase of a program that one of
\* them has aborted is the name of the operation.
Unimplemented == {"try_build", "try_rebuild", "to_html_with_buf", "hydrate"}

\* The phases of a program that has panicked: in expect() ("aborted") or in
\* todo!().  Nothing runs after a panic.
Panicked == {"aborted"} \cup Unimplemented

----------------------------------------------------------------------------
(* The external collaborators.                                             *)

\* Rndr::try_mount_before(state, marker): mounts before the marker when the
\* marker is in the document, and does nothing otherwise.
TryMountBefore(isAttached, set, id) == IF isAttached THEN set \cup {id} ELSE set

\* Executor::spawn_local of the task that awaits computation k: the task is
\* queued, and the computation has moved into it.
SpawnLocal(k) ==
    /\ task' = [task EXCEPT ![k] = "queued"]
    /\ owner' = [owner EXCEPT ![k] = "task"]

\* The first poll of a future finds it complete or pending.
Polled(resolved) == IF resolved THEN "complete" ELSE "pending"

\* RwLock::write / RefCell::borrow_mut by `who`.  On the one thread of the
\* executor a request for a held guard never returns (RwLock) or panics (RefCell).
Acquire(who) ==
    IF guard = "free"
    THEN guard' = who /\ UNCHANGED blocked
    ELSE blocked' = TRUE /\ UNCHANGED guard

\* Either::<Fal, Output>::build (hydrating = FALSE) and ::hydrate (TRUE) for
\* Either::Right(resolved), the value of computation k.  A built state is
\* not in the document until it is mounted; a hydrated state already is.
EitherBuildRight(k, hydrating) ==
    /\ mode' = "Ready"
    /\ ready' = <<k>>
    /\ content' = [content EXCEPT ![k] = Output(k)]
    /\ mounted' = IF hydrating THEN {k} ELSE {}
    /\ attached' = hydrating
    /\ UNCHANGED <<fbBuilt, fbMounted>>

\* Either::<Fal, Output>::build and ::hydrate for Either::Left(fallback).
EitherBuildLeft(hydrating) ==
    /\ mode' = "Fallback"
    /\ ready' = <<>>
    /\ fbBuilt' = TRUE
    /\ fbMounted' = hydrating
    /\ attached' = hydrating
    /\ UNCHANGED <<content, mounted>>

\* EitherState::mount: the active branch and the marker enter the document.
EitherStateMount ==
    /\ attached' = TRUE
    /\ fbMounted' = (mode = "Fallback")
    /\ mounted' = (IF mode = "Ready" THEN {ready[1]} ELSE {})
    /\ UNCHANGED <<content, fbBuilt>>

\* EitherState::unmount: the active branch and the marker leave the document.
EitherStateUnmount ==
    /\ attached' = FALSE
    /\ fbMounted' = FALSE
    /\ mounted' = {}
    /\ UNCHANGED <<content, fbBuilt>>

\* Either::Left(fallback).rebuild(state): a Fallback state is rebuilt in place,
\* a Ready state is unmounted and the fallback built and mounted at the marker.
EitherRebuildLeft ==
    /\ mode' = "Fallback"
    /\ ready' = <<>>
    /\ fbBuilt' = TRUE
    /\ IF mode = "Ready"
       THEN /\ mounted' = {}
            /\ fbMounted' = attached
       ELSE UNCHANGED <<fbMounted, mounted>>
    /\ UNCHANGED content

\* Either::Right(value).rebuild(state) with the value of computation k: a Ready
\* state is rebuilt in place, a Fallback state is unmounted and the ready
\* content built and mounted at the marker.
EitherRebuildRight(k) ==
    /\ mode' = "Ready"
    /\ IF mode = "Ready"
       THEN /\ content' = [content EXCEPT ![ready[1]] = Output(k)]
            /\ UNCHANGED <<ready, fbMounted, mounted>>
       ELSE /\ ready' = <<k>>
            /\ content' = [content EXCEPT ![k] = Output(k)]
            /\ fbMounted' = FALSE
            /\ mounted' = TryMountBefore(attached, {}, k)
    /\ UNCHANGED fbBuilt

----------------------------------------------------------------------------
(* Suspend                                                                 *)

\* Suspend::build without the now-or-never fast path: the fallback is built
\* and a task spawned whatever the poll returned.
Mut_Suspend_build_no_fast_path ==
    /\ kind = "Suspend" /\ phase = "new" /\ pc = "idle" /\ ~blocked
    /\ phase' = "live"
    /\ syncPolls' = [syncPolls EXCEPT ![0] = @ + 1]
    /\ \E resolved \in BOOLEAN :
         /\ fut' = [fut EXCEPT ![0] = IF resolved THEN "taken" ELSE "pending"]
         /\ EitherBuildLeft(FALSE)
         /\ SpawnLocal(0)
    /\ UNCHANGED <<kind, TRANSITION, fallback, nestVars, streamVars, nRebuilds,
                   taskPolls, pc, cur, guard, blocked, innerVars, lastWriter>>

\* Suspend::build: poll once; Ready if the poll resolved; otherwise Fallback
\* and one spawned task that awaits the same future.
Suspend_build ==
    /\ kind = "Suspend" /\ phase = "new" /\ pc = "idle" /\ ~blocked
    /\ phase' = "live"
    /\ syncPolls' = [syncPolls EXCEPT ![0] = @ + 1]
    /\ \E resolved \in BOOLEAN :
         IF resolved
         THEN /\ fut' = [fut EXCEPT ![0] = "taken"]
              /\ EitherBuildRight(0, FALSE)
              /\ UNCHANGED <<task, owner>>
         ELSE /\ fut' = [fut EXCEPT ![0] = "pending"]
              /\ EitherBuildLeft(FALSE)
              /\ SpawnLocal(0)
    /\ UNCHANGED <<kind, TRANSITION, fallback, nestVars, streamVars, nRebuilds, taskPolls, pc, cur,
                   guard, blocked, innerVars, lastWriter>>

\* Suspend::hydrate that forgets to spawn the task of a pending computation.
Mut_Suspend_hydrate_no_spawn ==
    /\ kind = "Suspend" /\ phase = "new" /\ pc = "idle" /\ ~blocked
    /\ phase' = "live"
    /\ syncPolls' = [syncPolls EXCEPT ![0] = @ + 1]
    /\ \E resolved \in BOOLEAN :
         IF resolved
         THEN /\ fut' = [fut EXCEPT ![0] = "taken"]
              /\ EitherBuildRight(0, TRUE)
         ELSE /\ fut' = [fut EXCEPT ![0] = "pending"]
              /\ EitherBuildLeft(TRUE)
    /\ UNCHANGED <<kind, TRANSITION, fallback, nestVars, streamVars, nRebuilds,
                   taskPolls, task, owner, pc, cur, guard, blocked, innerVars,
                   lastWriter>>

\* Suspend::hydrate: as build, on markup that is already in the document.
Suspend_hydrate ==
    /\ kind = "Suspend" /\ phase = "new" /\ pc = "idle" /\ ~blocked
    /\ phase' = "live"
    /\ syncPolls' = [syncPolls EXCEPT ![0] = @ + 1]
    /\ \E resolved \in BOOLEAN :
         IF resolved
         THEN /\ fut' = [fut EXCEPT ![0] = "taken"]
              /\ EitherBuildRight(0, TRUE)
              /\ UNCHANGED <<task, owner>>
         ELSE /\ fut' = [fut EXCEPT ![0] = "pending"]
              /\ EitherBuildLeft(TRUE)
              /\ SpawnLocal(0)
    /\ UNCHANGED <<kind, TRANSITION, fallback, nestVars, streamVars, nRebuilds, taskPolls, pc, cur,
                   guard, blocked, innerVars, lastWriter>>

\* Suspend::rebuild with build's now-or-never poll at its entry.
Mut_Suspend_rebuild_polls_once ==
    /\ kind = "Suspend" /\ phase = "live" /\ pc = "idle" /\ ~blocked
    /\ nRebuilds < MaxRebuilds
    /\ nRebuilds' = nRebuilds + 1
    /\ \E resolved \in BOOLEAN :
         fut' = [fut EXCEPT ![nRebuilds + 1] = Polled(resolved)]
    /\ syncPolls' = [syncPolls EXCEPT ![nRebuilds + 1] = @ + 1]
    /\ owner' = [owner EXCEPT ![nRebuilds + 1] = "caller"]
    /\ pc' = "sr_entered"
    /\ UNCHANGED <<kind, TRANSITION, fallback, nestVars, streamVars, phase, attached,
                   taskPolls, task, cur, guard, blocked, eitherVars,
                   innerVars, domVars, lastWriter>>

\* Suspend::rebuild is entered: the call brings computation nRebuilds + 1,
\* complete or pending, which the call does not poll.
Suspend_rebuild ==
    /\ kind = "Suspend" /\ phase = "live" /\ pc = "idle" /\ ~blocked
    /\ nRebuilds < MaxRebuilds
    /\ nRebuilds' = nRebuilds + 1
    /\ \E resolved \in BOOLEAN :
         fut' = [fut EXCEPT ![nRebuilds + 1] = Polled(resolved)]
    /\ owner' = [owner EXCEPT ![nRebuilds + 1] = "caller"]
    /\ pc' = "sr_entered"
    /\ UNCHANGED <<kind, TRANSITION, fallback, nestVars, streamVars, phase, attached, syncPolls,
                   taskPolls, task, cur, guard, blocked, eitherVars,
                   innerVars, domVars, lastWriter>>

\* state.write() without the test of TRANSITION: every rebuild reverts.
Mut_Suspend_rebuild_write_always ==
    /\ pc = "sr_entered" /\ ~blocked
    /\ Acquire("caller")
    /\ pc' = "sr_locked"
    /\ UNCHANGED <<kind, TRANSITION, fallback, nestVars, streamVars, phase, attached,
                   nRebuilds, futVars, task, cur, eitherVars, innerVars,
                   domVars, lastWriter>>

\* if !TRANSITION { ... state.write() }: the caller takes the write guard.
Suspend_rebuild_write ==
    /\ pc = "sr_entered" /\ ~TRANSITION /\ ~blocked
    /\ Acquire("caller")
    /\ pc' = "sr_locked"
    /\ UNCHANGED <<kind, TRANSITION, fallback, nestVars, streamVars, phase, attached, nRebuilds,
                   futVars, task, cur, eitherVars, innerVars, domVars,
                   lastWriter>>

\* The fallback write left out: the guard is taken and dropped.
Mut_Suspend_rebuild_no_fallback ==
    /\ pc = "sr_locked" /\ ~blocked
    /\ guard' = "free"
    /\ pc' = "sr_reverted"
    /\ UNCHANGED <<kind, TRANSITION, fallback, nestVars, streamVars, phase, attached,
                   nRebuilds, futVars, task, cur, blocked, eitherVars,
                   innerVars, domVars, lastWriter>>

\* Either::Left(self.fallback).rebuild(&mut *guard), and the guard is dropped.
Suspend_rebuild_fallback ==
    /\ pc = "sr_locked" /\ ~blocked
    /\ EitherRebuildLeft
    /\ guard' = "free"
    /\ pc' = "sr_reverted"
    /\ UNCHANGED <<kind, TRANSITION, fallback, nestVars, streamVars, phase, attached, nRebuilds,
                   futVars, task, cur, blocked, innerVars, lastWriter>>

\* Suspend::rebuild with build's fast path: a computation that is complete is
\* written at once, and only a pending one is spawned.
Mut_Suspend_rebuild_spawn_fast_path ==
    /\ kind = "Suspend" /\ ~blocked
    /\ pc = (IF TRANSITION THEN "sr_entered" ELSE "sr_reverted")
    /\ IF fut[nRebuilds] = "complete"
       THEN /\ fut' = [fut EXCEPT ![nRebuilds] = "taken"]
            /\ owner' = [owner EXCEPT ![nRebuilds] = "none"]
            /\ EitherRebuildRight(nRebuilds)
            /\ UNCHANGED task
       ELSE /\ SpawnLocal(nRebuilds)
            /\ UNCHANGED <<fut, eitherVars, domVars>>
    /\ pc' = "idle"
    /\ UNCHANGED <<kind, TRANSITION, fallback, nestVars, streamVars, phase, attached,
                   nRebuilds, syncPolls, taskPolls, cur, guard, blocked,
                   innerVars, lastWriter>>

\* Executor::spawn_local of the task awaiting self.fut; rebuild returns.
Suspend_rebuild_spawn ==
    /\ kind = "Suspend" /\ ~blocked
    /\ pc = (IF TRANSITION THEN "sr_entered" ELSE "sr_reverted")
    /\ SpawnLocal(nRebuilds)
    /\ pc' = "idle"
    /\ UNCHANGED <<kind, TRANSITION, fallback, nestVars, streamVars, phase, attached, nRebuilds,
                   fut, syncPolls, taskPolls, cur, guard, blocked,
                   eitherVars, innerVars, domVars, lastWriter>>

\* The task with state.write() moved before the await: the guard is taken on
\* the first poll and held while the task is suspended.
Mut_Suspend_task_poll_locks_first(k) ==
    /\ kind = "Suspend" /\ phase = "live" /\ pc = "idle" /\ ~blocked
    /\ \/ task[k] = "queued"
       \/ task[k] = "awaiting" /\ fut[k] = "complete"
    /\ taskPolls' = [taskPolls EXCEPT ![k] = @ + 1]
    /\ IF task[k] = "queued" THEN Acquire("task") ELSE UNCHANGED <<guard, blocked>>
    /\ IF fut[k] = "complete"
       THEN /\ fut' = [fut EXCEPT ![k] = "taken"]
            /\ task' = [task EXCEPT ![k] = "locked"]
            /\ pc' = "st_locked"
            /\ cur' = k
       ELSE /\ task' = [task EXCEPT ![k] = "awaiting"]
            /\ UNCHANGED <<fut, pc, cur>>
    /\ UNCHANGED <<kind, TRANSITION, fallback, nestVars, streamVars, phase, attached,
                   nRebuilds, syncPolls, owner, eitherVars, innerVars,
                   domVars, lastWriter>>

\* The executor runs task k up to its next await point: it polls its future;
\* a pending future suspends the task, a complete one yields its value and the
\* task goes on to state.write().
Suspend_task_poll(k) ==
    /\ kind = "Suspend" /\ phase = "live" /\ pc = "idle" /\ ~blocked
    /\ \/ task[k] = "queued"
       \/ task[k] = "awaiting" /\ fut[k] = "complete"
    /\ taskPolls' = [taskPolls EXCEPT ![k] = @ + 1]
    /\ IF fut[k] = "complete"
       THEN /\ fut' = [fut EXCEPT ![k] = "taken"]
            /\ Acquire("task")
            /\ task' = [task EXCEPT ![k] = "locked"]
            /\ pc' = "st_locked"
            /\ cur' = k
       ELSE /\ task' = [task EXCEPT ![k] = "awaiting"]
            /\ UNCHANGED <<fut, pc, cur, guard, blocked>>
    /\ UNCHANGED <<kind, TRANSITION, fallback, nestVars, streamVars, phase, attached, nRebuilds,
                   syncPolls, owner, eitherVars, innerVars, domVars,
                   lastWriter>>

\* The task's write with versioning: the result of a computation that a later
\* rebuild has superseded is dropped.
Mut_Suspend_task_write_versioned ==
    /\ pc = "st_locked" /\ ~blocked
    /\ IF cur = nRebuilds
       THEN EitherRebuildRight(cur)
       ELSE UNCHANGED <<eitherVars, domVars>>
    /\ guard' = "free"
    /\ task' = [task EXCEPT ![cur] = "done"]
    /\ owner' = [owner EXCEPT ![cur] = "none"]
    /\ lastWriter' = <<cur>>
    /\ pc' = "idle"
    /\ UNCHANGED <<kind, TRANSITION, fallback, nestVars, streamVars, phase, attached,
                   nRebuilds, fut, syncPolls, taskPolls, cur, blocked,
                   innerVars>>

\* Either::Right(value).rebuild(&mut *state.write()); the guard is dropped and
\* the task ends.
Suspend_task_write ==
    /\ pc = "st_locked" /\ ~blocked
    /\ EitherRebuildRight(cur)
    /\ guard' = "free"
    /\ task' = [task EXCEPT ![cur] = "done"]
    /\ owner' = [owner EXCEPT ![cur] = "none"]
    /\ lastWriter' = <<cur>>
    /\ pc' = "idle"
    /\ UNCHANGED <<kind, TRANSITION, fallback, nestVars, streamVars, phase, attached, nRebuilds,
                   fut, syncPolls, taskPolls, cur, blocked, innerVars>>

\* Mountable::mount of Arc<RwLock<EitherState>>: self.write() ...
Suspend_mount ==
    /\ kind = "Suspend" /\ phase = "live" /\ pc = "idle" /\ ~blocked
    /\ ~attached
    /\ Acquire("caller")
    /\ pc' = "sm_locked"
    /\ UNCHANGED <<kind, TRANSITION, fallback, nestVars, streamVars, phase, attached, nRebuilds,
                   futVars, task, cur, eitherVars, innerVars, domVars,
                   lastWriter>>

\* ... .mount(parent, marker), and the guard is dropped.
Suspend_mount_write ==
    /\ pc = "sm_locked" /\ ~blocked
    /\ EitherStateMount
    /\ guard' = "free"
    /\ pc' = "idle"
    /\ UNCHANGED <<kind, TRANSITION, fallback, nestVars, streamVars, phase, nRebuilds, futVars,
                   task, cur, blocked, eitherVars, innerVars, lastWriter>>

\* Mountable::unmount of Arc<RwLock<EitherState>>: self.write() ...
Suspend_unmount ==
    /\ kind = "Suspend" /\ phase = "live" /\ pc = "idle" /\ ~blocked
    /\ attached
    /\ Acquire("caller")
    /\ pc' = "su_locked"
    /\ UNCHANGED <<kind, TRANSITION, fallback, nestVars, streamVars, phase, attached, nRebuilds,
                   futVars, task, cur, eitherVars, innerVars, domVars,
                   lastWriter>>

\* ... .unmount(), and the guard is dropped.
Suspend_unmount_write ==
    /\ pc = "su_locked" /\ ~blocked
    /\ EitherStateUnmount
    /\ guard' = "free"
    /\ pc' = "idle"
    /\ UNCHANGED <<kind, TRANSITION, fallback, nestVars, streamVars, phase, nRebuilds, futVars,
                   task, cur, blocked, eitherVars, innerVars, lastWriter>>

----------------------------------------------------------------------------
(* SuspenseBoundary                                                        *)

\* SuspenseBoundary::build with the spawn moved before the state is made: the
\* task is spawned, and then expect() panics on a fallback of None.
Mut_SuspenseBoundary_build_spawns_first ==
    /\ kind = "Boundary" /\ phase = "new" /\ pc = "idle" /\ ~blocked
    /\ \E resolved \in BOOLEAN :
         fut' = [fut EXCEPT ![0] = Polled(resolved)]
    /\ SpawnLocal(0)
    /\ IF fallback = "None"
       THEN /\ phase' = "aborted"
            /\ UNCHANGED <<children, fbBuilt>>
       ELSE /\ phase' = "live"
            /\ fbBuilt' = TRUE
            /\ children' = <<>>
    /\ UNCHANGED <<kind, TRANSITION, fallback, nestVars, streamVars, attached,
                   nRebuilds, syncPolls, taskPolls, pc, cur, guard, blocked,
                   eitherVars, old_children, content, fbMounted, mounted,
                   lastWriter>>

\* SuspenseBoundary::build: the nested content's resolve() future is made (not
\* polled), the fallback is built into a state whose children slot is None,
\* and one task is spawned.  A fallback of None panics in expect(), before the
\* state exists and before the spawn.
SuspenseBoundary_build ==
    /\ kind = "Boundary" /\ phase = "new" /\ pc = "idle" /\ ~blocked
    /\ IF fallback = "None"
       THEN /\ phase' = "aborted"
            /\ UNCHANGED <<futVars, task, children, fbBuilt>>
       ELSE /\ phase' = "live"
            /\ \E resolved \in BOOLEAN :
                 fut' = [fut EXCEPT ![0] = Polled(resolved)]
            /\ fbBuilt' = TRUE
            /\ children' = <<>>
            /\ SpawnLocal(0)
            /\ UNCHANGED <<syncPolls, taskPolls>>
    /\ UNCHANGED <<kind, TRANSITION, fallback, nestVars, streamVars, attached, nRebuilds, pc, cur,
                   guard, blocked, eitherVars, old_children, content,
                   fbMounted, mounted, lastWriter>>

\* SuspenseBoundary::rebuild is entered with a new boundary value, whose
\* fallback may have been taken: state.inner.borrow_mut().  No step of rebuild
\* reads self.fallback.
SuspenseBoundary_rebuild ==
    /\ kind = "Boundary" /\ phase = "live" /\ pc = "idle" /\ ~blocked
    /\ nRebuilds < MaxRebuilds
    /\ nRebuilds' = nRebuilds + 1
    /\ \E fb \in {"Some", "None"} : fallback' = fb
    /\ Acquire("caller")
    /\ pc' = "br_locked"
    /\ UNCHANGED <<kind, TRANSITION, nestVars, streamVars, phase, attached,
                   futVars, task, cur, eitherVars, innerVars, domVars,
                   lastWriter>>

\* let mut old_children = inner.children.take();
SuspenseBoundary_rebuild_take ==
    /\ pc = "br_locked" /\ ~blocked
    /\ old_children' = children
    /\ children' = <<>>
    /\ pc' = "br_taken"
    /\ UNCHANGED <<kind, TRANSITION, fallback, nestVars, streamVars, phase, attached, nRebuilds,
                   futVars, task, cur, guard, blocked, eitherVars, domVars,
                   lastWriter>>

\* if !TRANSITION { Rndr::try_mount_before(&mut inner.fallback, marker); ...
SuspenseBoundary_rebuild_fallback ==
    /\ pc = "br_taken" /\ ~TRANSITION /\ ~blocked
    /\ fbMounted' = (fbMounted \/ attached)
    /\ pc' = "br_fallback"
    /\ UNCHANGED <<kind, TRANSITION, fallback, nestVars, streamVars, phase, attached, nRebuilds,
                   futVars, task, cur, guard, blocked, eitherVars, innerVars,
                   content, fbBuilt, mounted, lastWriter>>

\* The Replace branch without the unmount of the old children: the fallback is
\* mounted beside them.
Mut_SuspenseBoundary_rebuild_keeps_children ==
    /\ pc = "br_fallback" /\ ~blocked
    /\ pc' = "br_unmounted"
    /\ UNCHANGED <<kind, TRANSITION, fallback, nestVars, streamVars, phase, attached,
                   nRebuilds, futVars, task, cur, guard, blocked, eitherVars,
                   innerVars, domVars, lastWriter>>

\* ... if let Some(children) = &mut old_children { children.unmount(); } }
SuspenseBoundary_rebuild_unmount ==
    /\ pc = "br_fallback" /\ ~blocked
    /\ mounted' = (IF old_children = <<>> THEN mounted
                   ELSE mounted \ {old_children[1]})
    /\ pc' = "br_unmounted"
    /\ UNCHANGED <<kind, TRANSITION, fallback, nestVars, streamVars, phase, attached, nRebuilds,
                   futVars, task, cur, guard, blocked, eitherVars, innerVars,
                   content, fbBuilt, fbMounted, lastWriter>>

\* drop(inner); the nested content's resolve() future is made and the task
\* awaiting it is spawned; rebuild returns and old_children is dropped, which
\* leaves the document as it is.
SuspenseBoundary_rebuild_spawn ==
    /\ kind = "Boundary" /\ ~blocked
    /\ pc = (IF TRANSITION THEN "br_taken" ELSE "br_unmounted")
    /\ guard' = "free"
    /\ \E resolved \in BOOLEAN :
         fut' = [fut EXCEPT ![nRebuilds] = Polled(resolved)]
    /\ SpawnLocal(nRebuilds)
    /\ old_children' = <<>>
    /\ pc' = "idle"
    /\ UNCHANGED <<kind, TRANSITION, fallback, nestVars, streamVars, phase, attached, nRebuilds,
                   syncPolls, taskPolls, cur, blocked, eitherVars, children,
                   domVars, lastWriter>>

\* The executor runs task k up to its next await point: it polls its future;
\* a pending future suspends the task, a complete one yields its value and the
\* task goes on to inner.borrow_mut().
SuspenseBoundary_task_poll(k) ==
    /\ kind = "Boundary" /\ phase = "live" /\ pc = "idle" /\ ~blocked
    /\ \/ task[k] = "queued"
       \/ task[k] = "awaiting" /\ fut[k] = "complete"
    /\ taskPolls' = [taskPolls EXCEPT ![k] = @ + 1]
    /\ IF fut[k] = "complete"
       THEN /\ fut' = [fut EXCEPT ![k] = "taken"]
            /\ Acquire("task")
            /\ task' = [task EXCEPT ![k] = "locked"]
            /\ pc' = "bt_locked"
            /\ cur' = k
       ELSE /\ task' = [task EXCEPT ![k] = "awaiting"]
            /\ UNCHANGED <<fut, pc, cur, guard, blocked>>
    /\ UNCHANGED <<kind, TRANSITION, fallback, nestVars, streamVars, phase, attached, nRebuilds,
                   syncPolls, owner, eitherVars, innerVars, domVars,
                   lastWriter>>

\* if let Some(children) = &mut inner.children { value.rebuild(children); }
\* The state in the slot renders the new value; the guard is dropped and the
\* task ends.
SuspenseBoundary_task_rebuild ==
    /\ pc = "bt_locked" /\ ~blocked
    /\ children # <<>>
    /\ content' = [content EXCEPT ![children[1]] = Output(cur)]
    /\ guard' = "free"
    /\ task' = [task EXCEPT ![cur] = "done"]
    /\ owner' = [owner EXCEPT ![cur] = "none"]
    /\ lastWriter' = <<cur>>
    /\ pc' = "idle"
    /\ UNCHANGED <<kind, TRANSITION, fallback, nestVars, streamVars, phase, attached, nRebuilds,
                   fut, syncPolls, taskPolls, cur, blocked, eitherVars,
                   innerVars, fbBuilt, fbMounted, mounted>>

\* The swap in the other order: the fallback is unmounted before the new
\* content is mounted.
Mut_SuspenseBoundary_task_unmounts_first ==
    /\ pc = "bt_locked" /\ ~blocked
    /\ children = <<>>
    /\ content' = [content EXCEPT ![cur] = Output(cur)]
    /\ fbMounted' = FALSE
    /\ pc' = "bt_mounted"
    /\ UNCHANGED <<kind, TRANSITION, fallback, nestVars, streamVars, phase, attached,
                   nRebuilds, futVars, task, cur, guard, blocked, eitherVars,
                   innerVars, fbBuilt, mounted, lastWriter>>

\* else { let mut new_children = value.build();
\*        Rndr::try_mount_before(&mut new_children, marker.as_ref());
SuspenseBoundary_task_mount ==
    /\ pc = "bt_locked" /\ ~blocked
    /\ children = <<>>
    /\ content' = [content EXCEPT ![cur] = Output(cur)]
    /\ mounted' = TryMountBefore(attached, mounted, cur)
    /\ pc' = "bt_mounted"
    /\ UNCHANGED <<kind, TRANSITION, fallback, nestVars, streamVars, phase, attached, nRebuilds,
                   futVars, task, cur, guard, blocked, eitherVars, innerVars,
                   fbBuilt, fbMounted, lastWriter>>

\*        inner.children = Some(new_children);
SuspenseBoundary_task_set ==
    /\ pc = "bt_mounted" /\ ~blocked
    /\ children' = <<cur>>
    /\ pc' = "bt_set"
    /\ UNCHANGED <<kind, TRANSITION, fallback, nestVars, streamVars, phase, attached, nRebuilds,
                   futVars, task, cur, guard, blocked, eitherVars,
                   old_children, domVars, lastWriter>>

\*        Mountable::unmount(&mut inner.fallback); }
\* The guard is dropped and the task ends.
SuspenseBoundary_task_unmount ==
    /\ pc = "bt_set" /\ ~blocked
    /\ fbMounted' = FALSE
    /\ guard' = "free"
    /\ task' = [task EXCEPT ![cur] = "done"]
    /\ owner' = [owner EXCEPT ![cur] = "none"]
    /\ lastWriter' = <<cur>>
    /\ pc' = "idle"
    /\ UNCHANGED <<kind, TRANSITION, fallback, nestVars, streamVars, phase, attached, nRebuilds,
                   fut, syncPolls, taskPolls, cur, blocked, eitherVars,
                   innerVars, content, fbBuilt, mounted>>

\* Mountable::mount of SuspenseBoundaryState: self.inner.borrow_mut() ...
SuspenseBoundaryState_mount ==
    /\ kind = "Boundary" /\ phase = "live" /\ pc = "idle" /\ ~blocked
    /\ ~attached
    /\ Acquire("caller")
    /\ pc' = "bm_locked"
    /\ UNCHANGED <<kind, TRANSITION, fallback, nestVars, streamVars, phase, attached, nRebuilds,
                   futVars, task, cur, eitherVars, innerVars, domVars,
                   lastWriter>>

\* ... the children if the slot is filled, else the fallback, and then the
\* marker are mounted; the guard is dropped.
SuspenseBoundaryState_mount_write ==
    /\ pc = "bm_locked" /\ ~blocked
    /\ IF children # <<>>
       THEN mounted' = mounted \cup {children[1]} /\ UNCHANGED fbMounted
       ELSE fbMounted' = TRUE /\ UNCHANGED mounted
    /\ attached' = TRUE
    /\ guard' = "free"
    /\ pc' = "idle"
    /\ UNCHANGED <<kind, TRANSITION, fallback, nestVars, streamVars, phase, nRebuilds, futVars,
                   task, cur, blocked, eitherVars, innerVars, content,
                   fbBuilt, lastWriter>>

\* Mountable::unmount of SuspenseBoundaryState: self.inner.borrow_mut() ...
SuspenseBoundaryState_unmount ==
    /\ kind = "Boundary" /\ phase = "live" /\ pc = "idle" /\ ~blocked
    /\ attached
    /\ Acquire("caller")
    /\ pc' = "bu_locked"
    /\ UNCHANGED <<kind, TRANSITION, fallback, nestVars, streamVars, phase, attached, nRebuilds,
                   futVars, task, cur, eitherVars, innerVars, domVars,
                   lastWriter>>

\* ... the children if the slot is filled, else the fallback, and then the
\* marker are unmounted; the guard is dropped.
SuspenseBoundaryState_unmount_write ==
    /\ pc = "bu_locked" /\ ~blocked
    /\ IF children # <<>>
       THEN mounted' = mounted \ {children[1]} /\ UNCHANGED fbMounted
       ELSE fbMounted' = FALSE /\ UNCHANGED mounted
    /\ attached' = FALSE
    /\ guard' = "free"
    /\ pc' = "idle"
    /\ UNCHANGED <<kind, TRANSITION, fallback, nestVars, streamVars, phase, nRebuilds, futVars,
                   task, cur, blocked, eitherVars, innerVars, content,
                   fbBuilt, lastWriter>>

----------------------------------------------------------------------------
(* A SuspenseBoundary nested in a SuspenseBoundary                         *)
(*                                                                         *)
(* The children of the boundary under test (the outer one) are a           *)
(* SuspenseBoundary (the inner one) whose own children resolve with the    *)
(* computation nested_fut.  Computation 0 is the future returned by the    *)
(* inner boundary's resolve(); the inner state is ready state 0 of the     *)
(* outer one.                                                              *)

\* SuspenseBoundary::build of the outer boundary.  self.children.resolve() is
\* the inner boundary's `async fn resolve(self) -> Self { self }`: it has no
\* await point, so it is complete on its first poll whatever the inner
\* boundary's content is doing.
Nested_build ==
    /\ kind = "Nested" /\ phase = "new" /\ pc = "idle" /\ ~blocked
    /\ phase' = "live"
    /\ fut' = [fut EXCEPT ![0] = "complete"]
    /\ fbBuilt' = TRUE
    /\ children' = <<>>
    /\ SpawnLocal(0)
    /\ UNCHANGED <<kind, TRANSITION, fallback, nestVars, streamVars, attached,
                   nRebuilds, syncPolls, taskPolls, pc, cur, guard, blocked,
                   eitherVars, old_children, content, fbMounted, mounted,
                   lastWriter>>

\* Mountable::mount of the outer state: the state in the slot (the inner
\* state, which mounts its own children or else its own fallback, and its
\* marker) or else the outer fallback, and then the outer marker.
Nested_mount ==
    /\ kind = "Nested" /\ phase = "live" /\ pc = "idle" /\ ~blocked
    /\ ~attached /\ guard = "free"
    /\ attached' = TRUE
    /\ IF children # <<>>
       THEN /\ mounted' = mounted \cup {children[1]}
            /\ nested_mounted' = (IF nested_children = "Some" THEN {"children"}
                                  ELSE {"fallback"})
            /\ UNCHANGED fbMounted
       ELSE /\ fbMounted' = TRUE
            /\ UNCHANGED <<mounted, nested_mounted>>
    /\ UNCHANGED <<kind, TRANSITION, fallback, streamVars, phase, nRebuilds,
                   futVars, task, pc, cur, guard, blocked, eitherVars,
                   innerVars, content, fbBuilt, lastWriter, nested_fut,
                   nested_task, nested_built, nested_children>>

\* The outer task awaits the resolve() future as if the inner boundary's
\* content had to be complete for it to complete.
Mut_Nested_task_poll_awaits_nested ==
    /\ kind = "Nested" /\ pc = "idle" /\ ~blocked
    /\ task[0] \in {"queued", "awaiting"}
    /\ task[0] = "awaiting" => nested_fut = "complete"
    /\ taskPolls' = [taskPolls EXCEPT ![0] = @ + 1]
    /\ IF nested_fut = "complete"
       THEN /\ fut' = [fut EXCEPT ![0] = "taken"]
            /\ Acquire("task")
            /\ task' = [task EXCEPT ![0] = "locked"]
            /\ pc' = "nt_locked"
            /\ cur' = 0
       ELSE /\ task' = [task EXCEPT ![0] = "awaiting"]
            /\ UNCHANGED <<fut, pc, cur, guard, blocked>>
    /\ UNCHANGED <<kind, TRANSITION, fallback, nestVars, streamVars, phase,
                   attached, nRebuilds, syncPolls, owner, eitherVars,
                   innerVars, domVars, lastWriter>>

\* The executor runs the outer task: fut.await yields the inner boundary on
\* the first poll, and the task goes on to inner.borrow_mut().
Nested_task_poll ==
    /\ kind = "Nested" /\ pc = "idle" /\ ~blocked
    /\ task[0] = "queued" /\ fut[0] = "complete"
    /\ taskPolls' = [taskPolls EXCEPT ![0] = @ + 1]
    /\ fut' = [fut EXCEPT ![0] = "taken"]
    /\ Acquire("task")
    /\ task' = [task EXCEPT ![0] = "locked"]
    /\ pc' = "nt_locked"
    /\ cur' = 0
    /\ UNCHANGED <<kind, TRANSITION, fallback, nestVars, streamVars, phase,
                   attached, nRebuilds, syncPolls, owner, eitherVars,
                   innerVars, domVars, lastWriter>>

\* let mut new_children = value.build(): SuspenseBoundary::build of the inner
\* boundary, which builds the inner fallback, leaves the inner slot None and
\* spawns the inner task, without a poll of the inner content;
\* Rndr::try_mount_before(&mut new_children, marker): the inner state mounts
\* its fallback and its marker.
Nested_task_build ==
    /\ pc = "nt_locked" /\ ~blocked
    /\ children = <<>>
    /\ nested_built' = TRUE
    /\ nested_children' = "None"
    /\ nested_task' = "queued"
    /\ mounted' = TryMountBefore(attached, mounted, cur)
    /\ nested_mounted' = (IF attached THEN {"fallback"} ELSE {})
    /\ pc' = "nt_mounted"
    /\ UNCHANGED <<kind, TRANSITION, fallback, streamVars, phase, attached,
                   nRebuilds, futVars, task, cur, guard, blocked, eitherVars,
                   innerVars, content, fbBuilt, fbMounted, lastWriter,
                   nested_fut>>

\* inner.children = Some(new_children); Mountable::unmount(&mut inner.fallback);
\* the guard is dropped and the outer task ends.
Nested_task_set ==
    /\ pc = "nt_mounted" /\ ~blocked
    /\ children' = <<cur>>
    /\ fbMounted' = FALSE
    /\ guard' = "free"
    /\ task' = [task EXCEPT ![cur] = "done"]
    /\ owner' = [owner EXCEPT ![cur] = "none"]
    /\ lastWriter' = <<cur>>
    /\ pc' = "idle"
    /\ UNCHANGED <<kind, TRANSITION, fallback, nestVars, streamVars, phase,
                   attached, nRebuilds, fut, syncPolls, taskPolls, cur,
                   blocked, eitherVars, old_children, content, fbBuilt,
                   mounted>>

\* The executor runs the inner task up to its next await point.  A pending
\* content suspends it; a complete one is built, mounted before the inner
\* marker when that is in the document, recorded in the inner slot, and the
\* inner fallback is unmounted.
Nested_inner_task_poll ==
    /\ kind = "Nested" /\ pc = "idle" /\ ~blocked
    /\ \/ nested_task = "queued"
       \/ nested_task = "awaiting" /\ nested_fut = "complete"
    /\ IF nested_fut = "complete"
       THEN /\ nested_fut' = "taken"
            /\ nested_task' = "done"
            /\ nested_children' = "Some"
            /\ nested_mounted' = (IF mounted # {} THEN {"children"} ELSE {})
       ELSE /\ nested_task' = "awaiting"
            /\ UNCHANGED <<nested_fut, nested_children, nested_mounted>>
    /\ UNCHANGED <<kind, TRANSITION, fallback, streamVars, phase, attached,
                   nRebuilds, futVars, task, pc, cur, guard, blocked,
                   eitherVars, innerVars, domVars, lastWriter, nested_built>>

\* The computation of the inner boundary's content completes.
Nested_future_completes ==
    /\ kind = "Nested" /\ pc = "idle" /\ ~blocked
    /\ nested_fut = "pending"
    /\ nested_fut' = "complete"
    /\ UNCHANGED <<kind, TRANSITION, fallback, streamVars, phase, attached,
                   nRebuilds, futVars, task, pc, cur, guard, blocked,
                   eitherVars, innerVars, domVars, lastWriter, nested_task,
                   nested_built, nested_children, nested_mounted>>

----------------------------------------------------------------------------
(* HTML emission of Suspend nodes                                          *)
(*                                                                         *)
(* A streaming pass emits the Suspend nodes 0, 1, ... in source order.     *)
(* They are siblings, except that with `nesting` node 1 is part of the     *)
(* resolved output of node 0.  Node k wraps computation k.                 *)

\* A chunk of the StreamBuilder, and an item of the streamed output: what it
\* is ("ready" markup, "fallback" markup, an in-order "async" fragment, an
\* out-of-order "ooo" fragment), of which node, under which identity.
Chunk(t, k, id) == [t |-> t, node |-> k, id |-> id]

\* buf.push_fallback(fallback) and buf.push_async_out_of_order(fut): the
\* fallback markup, bracketed by markers that carry the identity, is written
\* at the current position and the fragment is registered.
PushOutOfOrder(chunks, k, id) ==
    chunks \o <<Chunk("fallback", k, id), Chunk("ooo", k, id)>>

\* buf.push_async(fut): the in-order fragment is registered at the current
\* position.
PushAsync(chunks, k, id) == Append(chunks, Chunk("async", k, id))

\* The Suspend node in the resolved output of node k: <<>> or <<node>>.
NestedIn(k) == IF nesting /\ k = 0 THEN <<1>> ELSE <<>>

\* The sibling that follows node k in the pass.
NextSibling(k) == IF nesting /\ k = 0 THEN 2 ELSE k + 1

\* The nodes whose to_html_async_with_buf runs when node k is emitted and its
\* poll returns `resolved` (or when the fragment of node k resolves): node k
\* and, in its resolved output, the nested node.
Emitted(k, resolved) ==
    {k} \cup (IF resolved THEN {NestedIn(k)[i] : i \in DOMAIN NestedIn(k)} ELSE {})

\* What to_html_async_with_buf of node n writes after its poll: the ready
\* markup, or for a pending poll the chunks of the discipline, under the
\* identity the builder is at.
EmitOne(chunks, n, resolved, id) ==
    IF resolved THEN Append(chunks, Chunk("ready", n, 0))
    ELSE IF OUT_OF_ORDER THEN PushOutOfOrder(chunks, n, id)
    ELSE PushAsync(chunks, n, id)

\* Either::Right(value).to_html_async_with_buf for the value of node k, into a
\* builder whose identity is id: the markup of the value and, for a Suspend
\* node nested in it, that node's to_html_async_with_buf (buf.next_id(), one
\* poll that returns childResolved).
EmitResolved(chunks, k, childResolved, id) ==
    IF NestedIn(k) = <<>>
    THEN Append(chunks, Chunk("ready", k, 0))
    ELSE EmitOne(Append(chunks, Chunk("ready", k, 0)), NestedIn(k)[1],
                 childResolved, id + 1)

\* The polls of one emission: every node of P is polled once by the caller;
\* one that resolved gives up its value, a pending one is moved into the one
\* fragment registered for it under the identity Id[n].
Polls(P, Res, Id, futB, taskB, ownerB) ==
    /\ syncPolls' = [n \in FutIds |-> IF n \in P THEN syncPolls[n] + 1
                                     ELSE syncPolls[n]]
    /\ fut' = [n \in FutIds |-> IF n \in P
                                THEN (IF Res[n] THEN "taken" ELSE "pending")
                                ELSE futB[n]]
    /\ fragId' = [n \in FutIds |-> IF n \in P /\ ~Res[n] THEN Id[n]
                                   ELSE fragId[n]]
    /\ task' = [n \in FutIds |-> IF n \in P /\ ~Res[n] THEN "queued"
                                 ELSE taskB[n]]
    /\ owner' = [n \in FutIds |-> IF n \in P /\ ~Res[n] THEN "fragment"
                                  ELSE ownerB[n]]

\* Suspend::to_html_async_with_buf that registers the fragment before it
\* looks at the poll: a computation that resolved is handed on all the same.
Mut_Suspend_to_html_async_always_defers ==
    /\ kind = "Stream" /\ phase \in {"new", "live"} /\ pc = "idle" /\ ~blocked
    /\ emitted \in FutIds
    /\ phase' = "live"
    /\ emitted' = NextSibling(emitted)
    /\ nextId' = nextId + 1
    /\ syncPolls' = [syncPolls EXCEPT ![emitted] = @ + 1]
    /\ \E resolved \in BOOLEAN :
         /\ fut' = [fut EXCEPT ![emitted] = IF resolved THEN "taken" ELSE "pending"]
         /\ buf' = IF resolved
                   THEN EmitOne(Append(buf, Chunk("ready", emitted, 0)),
                                emitted, FALSE, nextId + 1)
                   ELSE EmitOne(buf, emitted, FALSE, nextId + 1)
    /\ fragId' = [fragId EXCEPT ![emitted] = nextId + 1]
    /\ task' = [task EXCEPT ![emitted] = "queued"]
    /\ owner' = [owner EXCEPT ![emitted] = "fragment"]
    /\ UNCHANGED <<kind, TRANSITION, fallback, nestVars, OUT_OF_ORDER, nesting,
                   attached, nRebuilds, taskPolls, pc, cur, guard, blocked,
                   eitherVars, innerVars, domVars, lastWriter, ooo, out>>

\* Suspend::to_html_async_with_buf without buf.push_fallback: a pending node
\* of an out-of-order pass registers its fragment and writes no placeholder.
Mut_Suspend_to_html_async_no_push_fallback ==
    /\ kind = "Stream" /\ phase \in {"new", "live"} /\ pc = "idle" /\ ~blocked
    /\ emitted \in FutIds
    /\ phase' = "live"
    /\ emitted' = NextSibling(emitted)
    /\ \E resolved, childResolved \in BOOLEAN :
         /\ childResolved => (resolved /\ NestedIn(emitted) # <<>>)
         /\ LET P == Emitted(emitted, resolved)
                Res == [n \in FutIds |-> IF n = emitted THEN resolved
                                         ELSE childResolved]
                Id == [n \in FutIds |-> IF n = emitted THEN nextId + 1
                                        ELSE nextId + 2]
            IN /\ nextId' = nextId + Cardinality(P)
               /\ buf' = IF resolved
                         THEN EmitResolved(buf, emitted, childResolved, nextId + 1)
                         ELSE IF OUT_OF_ORDER
                              THEN Append(buf, Chunk("ooo", emitted, nextId + 1))
                              ELSE PushAsync(buf, emitted, nextId + 1)
               /\ Polls(P, Res, Id, fut, task, owner)
    /\ UNCHANGED <<kind, TRANSITION, fallback, nestVars, OUT_OF_ORDER, nesting,
                   attached, nRebuilds, taskPolls, pc, cur, guard, blocked,
                   eitherVars, innerVars, domVars, lastWriter, ooo, out>>

\* Suspend::to_html_async_with_buf without the test of OUT_OF_ORDER: a pending
\* node is pushed as fallback and out-of-order fragment in either discipline.
Mut_Suspend_to_html_async_ignores_discipline ==
    /\ kind = "Stream" /\ phase \in {"new", "live"} /\ pc = "idle" /\ ~blocked
    /\ emitted \in FutIds
    /\ phase' = "live"
    /\ emitted' = NextSibling(emitted)
    /\ \E resolved, childResolved \in BOOLEAN :
         /\ childResolved => (resolved /\ NestedIn(emitted) # <<>>)
         /\ LET P == Emitted(emitted, resolved)
                Res == [n \in FutIds |-> IF n = emitted THEN resolved
                                         ELSE childResolved]
                Id == [n \in FutIds |-> IF n = emitted THEN nextId + 1
                                        ELSE nextId + 2]
            IN /\ nextId' = nextId + Cardinality(P)
               /\ buf' = IF resolved
                         THEN EmitResolved(buf, emitted, childResolved, nextId + 1)
                         ELSE PushOutOfOrder(buf, emitted, nextId + 1)
               /\ Polls(P, Res, Id, fut, task, owner)
    /\ UNCHANGED <<kind, TRANSITION, fallback, nestVars, OUT_OF_ORDER, nesting,
                   attached, nRebuilds, taskPolls, pc, cur, guard, blocked,
                   eitherVars, innerVars, domVars, lastWriter, ooo, out>>

\* Suspend::to_html_async_with_buf with buf.push_fallback moved out of the
\* test of OUT_OF_ORDER: an in-order pass writes the fallback of a pending
\* node too, before it registers the fragment.
Mut_Suspend_to_html_async_fallback_in_order ==
    /\ kind = "Stream" /\ phase \in {"new", "live"} /\ pc = "idle" /\ ~blocked
    /\ emitted \in FutIds
    /\ phase' = "live"
    /\ emitted' = NextSibling(emitted)
    /\ \E resolved, childResolved \in BOOLEAN :
         /\ childResolved => (resolved /\ NestedIn(emitted) # <<>>)
         /\ LET P == Emitted(emitted, resolved)
                Res == [n \in FutIds |-> IF n = emitted THEN resolved
                                         ELSE childResolved]
                Id == [n \in FutIds |-> IF n = emitted THEN nextId + 1
                                        ELSE nextId + 2]
            IN /\ nextId' = nextId + Cardinality(P)
               /\ buf' = IF resolved
                         THEN EmitResolved(buf, emitted, childResolved, nextId + 1)
                         ELSE IF OUT_OF_ORDER
                              THEN PushOutOfOrder(buf, emitted, nextId + 1)
                              ELSE PushAsync(Append(buf, Chunk("fallback", emitted,
                                                              nextId + 1)),
                                             emitted, nextId + 1)
               /\ Polls(P, Res, Id, fut, task, owner)
    /\ UNCHANGED <<kind, TRANSITION, fallback, nestVars, OUT_OF_ORDER, nesting,
                   attached, nRebuilds, taskPolls, pc, cur, guard, blocked,
                   eitherVars, innerVars, domVars, lastWriter, ooo, out>>

\* Suspend::to_html_async_with_buf with buf.next_id() moved into the pending
\* branch: a node that resolves on the poll does not advance the identity.
Mut_Suspend_to_html_async_next_id_when_pending ==
    /\ kind = "Stream" /\ phase \in {"new", "live"} /\ pc = "idle" /\ ~blocked
    /\ emitted \in FutIds
    /\ phase' = "live"
    /\ emitted' = NextSibling(emitted)
    /\ \E resolved, childResolved \in BOOLEAN :
         /\ childResolved => (resolved /\ NestedIn(emitted) # <<>>)
         /\ LET P == Emitted(emitted, resolved)
                Res == [n \in FutIds |-> IF n = emitted THEN resolved
                                         ELSE childResolved]
                Id == [n \in FutIds |-> nextId + 1]
            IN /\ nextId' = nextId + Cardinality({n \in P : ~Res[n]})
               /\ buf' = IF resolved
                         THEN EmitResolved(buf, emitted, childResolved, nextId)
                         ELSE EmitOne(buf, emitted, FALSE, nextId + 1)
               /\ Polls(P, Res, Id, fut, task, owner)
    /\ UNCHANGED <<kind, TRANSITION, fallback, nestVars, OUT_OF_ORDER, nesting,
                   attached, nRebuilds, taskPolls, pc, cur, guard, blocked,
                   eitherVars, innerVars, domVars, lastWriter, ooo, out>>

\* Suspend::to_html_async_with_buf of the next sibling node of the pass:
\* buf.next_id(), then one poll.  A resolved poll writes the ready markup at
\* the current position (and emits the node nested in it the same way); a
\* pending one hands the future to the one fragment it registers.
Suspend_to_html_async ==
    /\ kind = "Stream" /\ phase \in {"new", "live"} /\ pc = "idle" /\ ~blocked
    /\ emitted \in FutIds
    /\ phase' = "live"
    /\ emitted' = NextSibling(emitted)
    /\ \E resolved, childResolved \in BOOLEAN :
         /\ childResolved => (resolved /\ NestedIn(emitted) # <<>>)
         /\ LET P == Emitted(emitted, resolved)
                Res == [n \in FutIds |-> IF n = emitted THEN resolved
                                         ELSE childResolved]
                Id == [n \in FutIds |-> IF n = emitted THEN nextId + 1
                                        ELSE nextId + 2]
            IN /\ nextId' = nextId + Cardinality(P)
               /\ buf' = IF resolved
                         THEN EmitResolved(buf, emitted, childResolved, nextId + 1)
                         ELSE EmitOne(buf, emitted, FALSE, nextId + 1)
               /\ Polls(P, Res, Id, fut, task, owner)
    /\ UNCHANGED <<kind, TRANSITION, fallback, nestVars, OUT_OF_ORDER, nesting,
                   attached, nRebuilds, taskPolls, pc, cur, guard, blocked,
                   eitherVars, innerVars, domVars, lastWriter, ooo, out>>

\* Suspend::to_html_with_buf, the synchronous emission into a String: the
\* fallback markup is written, the computation (complete or pending) is not
\* polled, and it is dropped with the node.
Suspend_to_html ==
    /\ kind = "Html" /\ phase = "new" /\ pc = "idle" /\ ~blocked
    /\ phase' = "rendered"
    /\ \E resolved \in BOOLEAN :
         fut' = [fut EXCEPT ![0] = Polled(resolved)]
    /\ emitted' = 1
    /\ out' = Append(out, Chunk("fallback", 0, 0))
    /\ UNCHANGED <<kind, TRANSITION, fallback, nestVars, OUT_OF_ORDER, nesting,
                   nextId, fragId, buf, ooo, attached, nRebuilds, syncPolls,
                   taskPolls, owner, task, pc, cur, guard, blocked,
                   eitherVars, innerVars, domVars, lastWriter>>

\* builder.finish(): the pass is over and the chunks are streamed.
StreamBuilder_finish ==
    /\ kind = "Stream" /\ phase = "live" /\ pc = "idle" /\ ~blocked
    /\ phase' = "streaming"
    /\ UNCHANGED <<kind, TRANSITION, fallback, nestVars, streamVars, attached,
                   nRebuilds, futVars, task, pc, cur, guard, blocked,
                   eitherVars, innerVars, domVars, lastWriter>>

\* The stream yields its next chunk when that is markup.
StreamBuilder_next_sync ==
    /\ kind = "Stream" /\ phase = "streaming" /\ ~blocked
    /\ buf # <<>> /\ Head(buf).t \in {"ready", "fallback"}
    /\ out' = Append(out, Head(buf))
    /\ buf' = Tail(buf)
    /\ UNCHANGED <<kind, TRANSITION, fallback, nestVars, OUT_OF_ORDER, nesting,
                   emitted, nextId, fragId, ooo, phase, attached, nRebuilds,
                   futVars, task, pc, cur, guard, blocked, eitherVars,
                   innerVars, domVars, lastWriter>>

\* The stream sets an out-of-order fragment aside and goes on.
StreamBuilder_next_ooo ==
    /\ kind = "Stream" /\ phase = "streaming" /\ ~blocked
    /\ buf # <<>> /\ Head(buf).t = "ooo"
    /\ ooo' = ooo \cup {Head(buf).node}
    /\ buf' = Tail(buf)
    /\ UNCHANGED <<kind, TRANSITION, fallback, nestVars, OUT_OF_ORDER, nesting,
                   emitted, nextId, fragId, out, phase, attached, nRebuilds,
                   futVars, task, pc, cur, guard, blocked, eitherVars,
                   innerVars, domVars, lastWriter>>

\* The stream polls the out-of-order fragment of node k.  A pending
\* computation leaves the stream waiting; a complete one yields the node's
\* ready markup, serialised by Either::Right(value).to_html_async_with_buf.
FragmentPoll(k, item) ==
    /\ \/ task[k] = "queued"
       \/ task[k] = "awaiting" /\ fut[k] = "complete"
    /\ taskPolls' = [taskPolls EXCEPT ![k] = @ + 1]
    /\ IF fut[k] = "complete"
       THEN /\ fut' = [fut EXCEPT ![k] = "taken"]
            /\ task' = [task EXCEPT ![k] = "done"]
            /\ owner' = [owner EXCEPT ![k] = "none"]
            /\ out' = Append(out, item)
       ELSE /\ task' = [task EXCEPT ![k] = "awaiting"]
            /\ UNCHANGED <<fut, owner, out>>
    /\ UNCHANGED syncPolls

\* The next chunk is an in-order fragment: the stream polls it, and nothing
\* behind it is streamed before it has resolved.  When it has, its async
\* block serialises the value into a StreamBuilder::new(id) of its own (the
\* nested node is emitted into that builder), and the chunks of
\* builder.finish().take_chunks() take the fragment's place.
StreamBuilder_next_async ==
    /\ kind = "Stream" /\ phase = "streaming" /\ ~blocked
    /\ buf # <<>> /\ Head(buf).t = "async"
    /\ \/ task[Head(buf).node] = "queued"
       \/ task[Head(buf).node] = "awaiting" /\ fut[Head(buf).node] = "complete"
    /\ taskPolls' = [taskPolls EXCEPT ![Head(buf).node] = @ + 1]
    /\ IF fut[Head(buf).node] = "complete"
       THEN /\ \E childResolved \in BOOLEAN :
                 /\ childResolved => NestedIn(Head(buf).node) # <<>>
                 /\ LET k == Head(buf).node
                        P == Emitted(k, TRUE) \ {k}
                        Res == [n \in FutIds |-> childResolved]
                        Id == [n \in FutIds |-> fragId[k] + 1]
                    IN /\ Polls(P, Res, Id, [fut EXCEPT ![k] = "taken"],
                                [task EXCEPT ![k] = "done"],
                                [owner EXCEPT ![k] = "none"])
                       /\ buf' = EmitResolved(<<>>, k, childResolved, fragId[k])
                                    \o Tail(buf)
       ELSE /\ task' = [task EXCEPT ![Head(buf).node] = "awaiting"]
            /\ UNCHANGED <<fut, owner, fragId, syncPolls, buf>>
    /\ UNCHANGED <<kind, TRANSITION, fallback, nestVars, OUT_OF_ORDER, nesting,
                   emitted, nextId, ooo, out, phase, attached, nRebuilds, pc,
                   cur, guard, blocked, eitherVars, innerVars, domVars,
                   lastWriter>>

\* No chunk is left: the stream polls the out-of-order fragments it has set
\* aside and appends the ones that have resolved, tagged with their identity.
StreamBuilder_next_pending_ooo(k) ==
    /\ kind = "Stream" /\ phase = "streaming" /\ ~blocked
    /\ buf = <<>> /\ k \in ooo
    /\ FragmentPoll(k, Chunk("fragment", k, fragId[k]))
    /\ ooo' = IF fut[k] = "complete" THEN ooo \ {k} ELSE ooo
    /\ UNCHANGED <<kind, TRANSITION, fallback, nestVars, OUT_OF_ORDER, nesting,
                   emitted, nextId, fragId, buf, phase, attached, nRebuilds,
                   pc, cur, guard, blocked, eitherVars, innerVars, domVars,
                   lastWriter>>

----------------------------------------------------------------------------
(* The operations that are not implemented                                 *)

\* todo!() panics: the call does not return, and nothing it was given (the
\* node, the state, the buffer, the cursor) is touched before the panic.
Todo(op) ==
    /\ phase' = op
    /\ UNCHANGED <<kind, TRANSITION, fallback, nestVars, streamVars, attached,
                   nRebuilds, futVars, task, pc, cur, guard, blocked,
                   eitherVars, innerVars, domVars, lastWriter>>

\* Suspend::try_build delegating to build: Ok(self.build()).
Mut_Suspend_try_build_builds ==
    /\ kind = "Suspend" /\ phase = "new" /\ pc = "idle" /\ ~blocked
    /\ phase' = "try_build"
    /\ syncPolls' = [syncPolls EXCEPT ![0] = @ + 1]
    /\ \E resolved \in BOOLEAN :
         IF resolved
         THEN /\ fut' = [fut EXCEPT ![0] = "taken"]
              /\ EitherBuildRight(0, FALSE)
              /\ UNCHANGED <<task, owner>>
         ELSE /\ fut' = [fut EXCEPT ![0] = "pending"]
              /\ EitherBuildLeft(FALSE)
              /\ SpawnLocal(0)
    /\ UNCHANGED <<kind, TRANSITION, fallback, nestVars, streamVars, nRebuilds,
                   taskPolls, pc, cur, guard, blocked, innerVars, lastWriter>>

\* Suspend::try_build
Suspend_try_build ==
    /\ kind = "Suspend" /\ phase = "new" /\ pc = "idle" /\ ~blocked
    /\ Todo("try_build")

\* Suspend::try_rebuild, on a state that build or hydrate returned
\* (FallibleState = State)
Suspend_try_rebuild ==
    /\ kind = "Suspend" /\ phase = "live" /\ pc = "idle" /\ ~blocked
    /\ Todo("try_rebuild")

\* SuspenseBoundary::try_build
SuspenseBoundary_try_build ==
    /\ kind = "Boundary" /\ phase = "new" /\ pc = "idle" /\ ~blocked
    /\ Todo("try_build")

\* SuspenseBoundary::try_rebuild (FallibleState = (), so no build need precede)
SuspenseBoundary_try_rebuild ==
    /\ kind = "Boundary" /\ phase \in {"new", "live"} /\ pc = "idle" /\ ~blocked
    /\ Todo("try_rebuild")

\* SuspenseBoundary::to_html_with_buf
SuspenseBoundary_to_html ==
    /\ kind = "Boundary" /\ phase = "new" /\ pc = "idle" /\ ~blocked
    /\ Todo("to_html_with_buf")

\* SuspenseBoundary::hydrate
SuspenseBoundary_hydrate ==
    /\ kind = "Boundary" /\ phase = "new" /\ pc = "idle" /\ ~blocked
    /\ Todo("hydrate")

----------------------------------------------------------------------------
(* The wrapped computations                                                *)

\* Pending computation k completes (between handlers: the executor has one
\* thread, and a streaming pass emits its nodes in one synchronous call).  A
\* computation that to_html_with_buf dropped is gone.
FutureCompletes(k) ==
    /\ pc = "idle" /\ ~blocked
    /\ phase \notin Panicked
    /\ ~(kind = "Stream" /\ phase = "live")
    /\ kind # "Html"
    /\ fut[k] = "pending"
    /\ fut' = [fut EXCEPT ![k] = "complete"]
    /\ UNCHANGED <<kind, TRANSITION, fallback, nestVars, streamVars, phase, attached, nRebuilds,
                   syncPolls, taskPolls, owner, task, pc, cur, guard, blocked,
                   eitherVars, innerVars, domVars, lastWriter>>

----------------------------------------------------------------------------

Next ==
    \/ Suspend_build
    \/ Suspend_hydrate
    \/ Suspend_rebuild
    \/ Suspend_rebuild_write
    \/ Suspend_rebuild_fallback
    \/ Suspend_rebuild_spawn
    \/ \E k \in FutIds : Suspend_task_poll(k)
    \/ Suspend_task_write
    \/ Suspend_mount
    \/ Suspend_mount_write
    \/ Suspend_unmount
    \/ Suspend_unmount_write
    \/ SuspenseBoundary_build
    \/ SuspenseBoundary_rebuild
    \/ SuspenseBoundary_rebuild_take
    \/ SuspenseBoundary_rebuild_fallback
    \/ SuspenseBoundary_rebuild_unmount
    \/ SuspenseBoundary_rebuild_spawn
    \/ \E k \in FutIds : SuspenseBoundary_task_poll(k)
    \/ SuspenseBoundary_task_rebuild
    \/ SuspenseBoundary_task_mount
    \/ SuspenseBoundary_task_set
    \/ SuspenseBoundary_task_unmount
    \/ SuspenseBoundaryState_mount
    \/ SuspenseBoundaryState_mount_write
    \/ SuspenseBoundaryState_unmount
    \/ SuspenseBoundaryState_unmount_write
    \/ Nested_build
    \/ Nested_mount
    \/ Nested_task_poll
    \/ Nested_task_build
    \/ Nested_task_set
    \/ Nested_inner_task_poll
    \/ Nested_future_completes
    \/ Suspend_to_html_async
    \/ Suspend_to_html
    \/ StreamBuilder_finish
    \/ StreamBuilder_next_sync
    \/ StreamBuilder_next_ooo
    \/ StreamBuilder_next_async
    \/ \E k \in FutIds : StreamBuilder_next_pending_ooo(k)
    \/ Suspend_try_build
    \/ Suspend_try_rebuild
    \/ SuspenseBoundary_try_build
    \/ SuspenseBoundary_try_rebuild
    \/ SuspenseBoundary_to_html
    \/ SuspenseBoundary_hydrate
    \/ \E k \in FutIds : FutureCompletes(k)

Spec == Init /\ [][Next]_vars

(* The Suspend node alone, under the scheduling the executor guarantees,    *)
(* in a program that calls no unimplemented operation.                     *)

SuspendInit == Init /\ kind = "Suspend"

\* A Suspend handler that has started runs to its end.
SuspendHandlerStep ==
    \/ Suspend_rebuild_write
    \/ Suspend_rebuild_fallback
    \/ Suspend_rebuild_spawn
    \/ Suspend_task_write
    \/ Suspend_mount_write
    \/ Suspend_unmount_write

\* The executor runs a task that is ready to run.
SuspendTaskStep == \E k \in FutIds : Suspend_task_poll(k)

\* A pending computation completes.
FutureStep == \E k \in FutIds : FutureCompletes(k)

SuspendNext ==
    \/ Suspend_build
    \/ Suspend_hydrate
    \/ Suspend_rebuild
    \/ Suspend_mount
    \/ Suspend_unmount
    \/ SuspendHandlerStep
    \/ SuspendTaskStep
    \/ FutureStep

\* A running handler runs on to its end (nothing else can run meanwhile).  The
\* executor runs every task that is ready, and every pending computation
\* completes, however often the caller's handlers come in between: a poll
\* takes its task out of the ready tasks until its computation completes, so
\* fairness to the polls together is fairness to each task.
SuspendFairness ==
    /\ WF_vars(SuspendHandlerStep)
    /\ SF_vars(SuspendTaskStep)
    /\ SF_vars(FutureStep)

SuspendFair == SuspendInit /\ [][SuspendNext]_vars /\ SuspendFairness

(* The steps of the SuspenseBoundary node that the executor drives.         *)

\* A SuspenseBoundary handler that has started runs to its end.
BoundaryHandlerStep ==
    \/ SuspenseBoundary_rebuild_take
    \/ SuspenseBoundary_rebuild_fallback
    \/ SuspenseBoundary_rebuild_unmount
    \/ SuspenseBoundary_rebuild_spawn
    \/ SuspenseBoundary_task_rebuild
    \/ SuspenseBoundary_task_mount
    \/ SuspenseBoundary_task_set
    \/ SuspenseBoundary_task_unmount
    \/ SuspenseBoundaryState_mount_write
    \/ SuspenseBoundaryState_unmount_write

\* The executor runs a task that is ready to run.
BoundaryTaskStep == \E k \in FutIds : SuspenseBoundary_task_poll(k)

\* What the executor and the computations do without a new call from the
\* caller: a running handler goes on, a ready task is run, a pending
\* computation completes.
Progress ==
    \/ SuspendHandlerStep \/ BoundaryHandlerStep
    \/ SuspendTaskStep \/ BoundaryTaskStep
    \/ FutureStep

----------------------------------------------------------------------------
(* Properties                                                              *)

\* Computation k resolved on the synchronous poll of build, hydrate or
\* to_html_async_with_buf: its value was taken and no task ever polled it.
SyncResolved(k) == fut[k] = "taken" /\ taskPolls[k] = 0

\* What the Suspend node shows: the value its ready state renders.
SuspendShown == content[ready[1]]

\* C1: Suspend build and hydrate, computation complete on the one synchronous
\* poll: the container is in Ready mode and holds the resolved value, no task
\* is spawned for the computation, and the fallback is never built or mounted:
\* not in any state before a rebuild, and under the Transition policy not in
\* any state at all.
C1_FastPath ==
    (kind = "Suspend" /\ SyncResolved(0)) =>
        /\ task[0] = "none"
        /\ (nRebuilds = 0 \/ TRANSITION) =>
               /\ mode = "Ready"
               /\ ~fbBuilt /\ ~fbMounted
        /\ nRebuilds = 0 =>
               /\ ready = <<0>> /\ SuspendShown = Output(0)
               /\ mounted = (IF attached THEN {0} ELSE {})
               /\ \A k \in FutIds : task[k] = "none"

C1_Witness ==
    /\ kind = "Suspend" /\ SyncResolved(0) /\ nRebuilds = 0
    /\ mode = "Ready" /\ attached /\ mounted = {0}

\* C2: Suspend.  A build or hydrate whose poll was pending leaves the
\* container in Fallback mode; while no rebuild has been called the only mode
\* change is Fallback to Ready, made by the write of task 0, so that Ready is
\* never left again; and in any run a change from Ready to Fallback is made
\* by the fallback write of a rebuild call under the Replace policy, and by
\* nothing else.
C2_ModeChanges ==
    [][kind = "Suspend" =>
        /\ (phase = "new" /\ phase' = "live" /\ fut'[0] = "pending")
              => mode' = "Fallback"
        /\ (phase = "live" /\ nRebuilds' = 0 /\ mode' # mode)
              => /\ mode = "Fallback" /\ mode' = "Ready"
                 /\ pc = "st_locked" /\ cur = 0 /\ task'[0] = "done"
        /\ (mode = "Ready" /\ mode' = "Fallback")
              => pc = "sr_locked" /\ ~TRANSITION]_vars

C2_Witness ==
    /\ kind = "Suspend" /\ nRebuilds = 0 /\ syncPolls[0] = 1
    /\ task[0] = "done" /\ taskPolls[0] >= 1
    /\ mode = "Ready" /\ lastWriter = <<0>>

\* C3: Suspend, Scenario A.  While the task spawned by a pending build has not
\* written and no rebuild was called, the fallback is what is shown; and if
\* every pending computation completes and the executor runs every spawned
\* task, a node in Fallback mode reaches a state in Ready mode with the
\* fallback unmounted, which without a rebuild shows the result of
\* computation 0.
C3_Liveness ==
    /\ []((kind = "Suspend" /\ nRebuilds = 0 /\ task[0] \in {"queued", "awaiting"})
            => /\ mode = "Fallback" /\ mounted = {}
               /\ fbMounted = attached)
    /\ (kind = "Suspend" /\ mode = "Fallback")
          ~> /\ mode = "Ready" /\ ~fbMounted
             /\ mounted = (IF attached THEN {ready[1]} ELSE {})
             /\ nRebuilds = 0 => SuspendShown = Output(0)

C3_Witness ==
    /\ kind = "Suspend" /\ nRebuilds = 0 /\ task[0] = "done"
    /\ mode = "Ready" /\ SuspendShown = Output(0)
    /\ attached /\ mounted = {0} /\ ~fbMounted /\ fbBuilt

\* The positions inside Suspend::rebuild.
SuspendRebuildPcs == {"sr_entered", "sr_locked", "sr_reverted"}

\* C4: Suspend rebuild under the Transition policy, Scenario B.  No step of
\* the rebuild call changes the container's mode, its ready state, what that
\* state renders or what is mounted.  A node in Ready mode stays in Ready mode
\* with the fallback unmounted, and what it shows changes only by the write
\* of a task whose computation has completed, in one step from the old value
\* to that task's result.
C4_Transition ==
    [][(kind = "Suspend" /\ TRANSITION) =>
        /\ (pc \in SuspendRebuildPcs \/ pc' \in SuspendRebuildPcs)
              => UNCHANGED <<mode, ready, content, fbMounted, mounted>>
        /\ mode = "Ready"
              => /\ mode' = "Ready" /\ ready' = ready /\ ~fbMounted'
                 /\ SuspendShown' # SuspendShown
                       => /\ pc = "st_locked" /\ fut[cur] = "taken"
                          /\ SuspendShown' = Output(cur)]_vars

C4_Witness ==
    /\ kind = "Suspend" /\ TRANSITION /\ nRebuilds = 1
    /\ task[0] = "done" /\ task[1] = "done" /\ lastWriter = <<1>>
    /\ mode = "Ready" /\ ready = <<0>> /\ SuspendShown = Output(1)
    /\ attached /\ mounted = {0} /\ ~fbMounted

\* C5: Suspend rebuild under the Replace policy, Scenario C.  When the rebuild
\* call returns the container is in Fallback mode whatever its mode was: the
\* ready state is gone and unmounted, the fallback is built and (the state
\* being in the document) mounted, and the task of the call's computation is
\* queued.  And if every pending computation completes and the executor runs
\* every spawned task, that task's write follows, after which the node is in
\* Ready mode and shows the result of the rebuild's own computation.
C5_Replace ==
    /\ [][(kind = "Suspend" /\ ~TRANSITION /\ pc \in SuspendRebuildPcs
                /\ pc' = "idle")
            => /\ mode' = "Fallback" /\ ready' = <<>> /\ mounted' = {}
               /\ fbBuilt' /\ fbMounted' = attached'
               /\ task'[nRebuilds] = "queued"]_vars
    /\ \A k \in FutIds \ {0} :
          (kind = "Suspend" /\ ~TRANSITION /\ task[k] = "queued")
             ~> /\ task[k] = "done" /\ lastWriter = <<k>>
                /\ mode = "Ready" /\ SuspendShown = Output(k)

C5_Witness ==
    /\ kind = "Suspend" /\ ~TRANSITION /\ nRebuilds = 1 /\ SyncResolved(0)
    /\ task[1] = "done" /\ lastWriter = <<1>>
    /\ mode = "Ready" /\ SuspendShown = Output(1)
    /\ attached /\ mounted = {1} /\ ~fbMounted /\ fbBuilt

\* What the node's container holds: the value rendered by Suspend's ready
\* state, or by the state in SuspenseBoundary's children slot.
Held == IF kind = "Suspend" THEN content[ready[1]] ELSE content[children[1]]

\* Every task that was spawned has ended.
AllTasksDone == \A k \in FutIds : task[k] \in {"none", "done"}

\* C6: Suspend and SuspenseBoundary, no cancellation and no versioning.  A
\* task that was spawned, superseded by a later rebuild or not, is never
\* dropped: as long as a task has not ended (and the program has not
\* panicked), the executor or a computation can take a step, so every task runs to its end and writes.  And once all
\* tasks have ended the container holds, and the document shows, the result
\* of the task that ended last, whichever build or rebuild spawned it.
C6_LastWriterWins ==
    (kind \in {"Suspend", "Boundary"} /\ phase \notin Panicked) =>
        /\ ~AllTasksDone => ENABLED Progress
        /\ \A k \in FutIds : task[k] = "done" => fut[k] = "taken"
        /\ (pc = "idle" /\ AllTasksDone /\ lastWriter # <<>>)
             => /\ IF kind = "Suspend" THEN mode = "Ready" ELSE children # <<>>
                /\ Held = Output(lastWriter[1])
                /\ attached =>
                      (IF kind = "Suspend" THEN ready[1] ELSE children[1])
                          \in mounted

C6_Witness ==
    /\ kind = "Suspend" /\ nRebuilds = 1 /\ pc = "idle"
    /\ task[0] = "done" /\ task[1] = "done"
    /\ lastWriter = <<0>> /\ mode = "Ready" /\ Held = Output(0)

\* The computations that Suspend polls synchronously: the one given to build
\* or hydrate, and the one of every node of a streaming pass.
SyncPolled(k) == (kind = "Suspend" /\ k = 0) \/ kind = "Stream"

\* The deferred fragments of node k that the stream still holds.
FragmentsOf(k) ==
    Cardinality({i \in DOMAIN buf : buf[i].node = k /\ buf[i].t \in {"async", "ooo"}})
        + (IF k \in ooo THEN 1 ELSE 0)

\* C7: Suspend build, hydrate and streaming emit poll their computation once
\* synchronously.  A computation that resolved on that poll has no task and no
\* fragment and is not polled again.  A pending one is owned by exactly one
\* party until its value is taken: the one task build or hydrate spawned, or
\* the one fragment the streaming pass registered; that party alone polls it,
\* and once its value is taken nobody polls it again.
C7_SingleOwner ==
    /\ [](\A k \in FutIds : (SyncPolled(k) /\ fut[k] # "absent") =>
            /\ syncPolls[k] = 1
            /\ task[k] = "none" => (fut[k] = "taken" /\ taskPolls[k] = 0)
            /\ fut[k] \in {"pending", "complete"}
                  => task[k] \in {"queued", "awaiting"}
            /\ owner[k] = (IF task[k] \in {"none", "done"} THEN "none"
                           ELSE IF kind = "Stream" THEN "fragment" ELSE "task")
            /\ kind = "Stream" =>
                  FragmentsOf(k) = (IF owner[k] = "fragment" THEN 1 ELSE 0))
    /\ [][\A k \in FutIds : (SyncPolled(k) /\ fut[k] # "absent") =>
            /\ syncPolls'[k] = syncPolls[k]
            /\ taskPolls'[k] # taskPolls[k]
                  => /\ fut[k] # "taken"
                     /\ task[k] \in {"queued", "awaiting"}]_vars

C7_Witness ==
    /\ kind = "Stream"
    /\ syncPolls[0] = 1 /\ taskPolls[0] = 2 /\ task[0] = "done"
    /\ syncPolls[1] = 1 /\ taskPolls[1] = 0 /\ task[1] = "none"
    /\ fut[0] = "taken" /\ fut[1] = "taken"

\* The container of the node and what it has in the document.
container == <<mode, ready, children, content, fbBuilt, fbMounted, mounted, attached>>

\* The guard is held by one party, inside a running handler only, and by a
\* task only once its computation has completed; nobody ever had to wait.
GuardDiscipline ==
    /\ ~blocked
    /\ guard # "free" => pc # "idle"
    /\ guard = "task" =>
          /\ pc \in {"st_locked", "bt_locked", "bt_mounted", "bt_set",
                    "nt_locked", "nt_mounted"}
          /\ task[cur] = "locked" /\ fut[cur] = "taken"
    /\ guard = "caller" =>
          pc \in {"sr_locked", "sm_locked", "su_locked", "br_locked",
                  "br_taken", "br_fallback", "br_unmounted", "bm_locked",
                  "bu_locked"}
    /\ \A k \in FutIds : task[k] \in {"queued", "awaiting"} =>
          ~(guard = "task" /\ cur = k)

\* C8 as stated: every mutation of the container, the initial build included,
\* is made by a party that holds the guard.
C8_Original ==
    /\ []GuardDiscipline
    /\ [][(kind \in {"Suspend", "Boundary"} /\ container' # container)
            => guard # "free"]_vars

\* C8, amended: once build or hydrate has created the container, every
\* mutation of it (the fallback write of a Replace rebuild, the slot and
\* document changes of SuspenseBoundary::rebuild, a task's write or swap,
\* mount and unmount) is made by the party that holds the guard.  A task takes
\* the guard only after its computation has completed, and the guard is free
\* whenever no handler is running, so no party ever finds it held and none
\* waits for it.  (build and hydrate fill the container before the lock that
\* guards it exists.)
C8_SingleWriter ==
    /\ []GuardDiscipline
    /\ [][(kind \in {"Suspend", "Boundary"} /\ phase = "live"
              /\ container' # container)
            => /\ guard # "free"
               /\ guard = "task" <=>
                     pc \in {"st_locked", "bt_locked", "bt_mounted", "bt_set"}]_vars

C8_Witness ==
    /\ kind = "Boundary" /\ pc = "bt_mounted" /\ guard = "task"
    /\ \E k \in FutIds : k # cur /\ task[k] = "queued" /\ fut[k] = "complete"

\* The positions inside the swap of a SuspenseBoundary task.
BoundaryTaskPcs == {"bt_locked", "bt_mounted", "bt_set"}

\* C9: SuspenseBoundary build.  build returns a state whose fallback is built
\* and whose children slot is empty, with exactly one task spawned and the
\* nested content not polled, also when that content is already complete.  In
\* the swap of a task that finds the slot empty the content is built and
\* mounted before the marker first, then recorded in the slot, and the
\* fallback is unmounted last; so a boundary that is in the document never
\* has its fallback unmounted with no ready content mounted.
C9_BoundaryBuild ==
    /\ []((kind = "Boundary" /\ phase = "live") =>
            /\ fbBuilt /\ task[0] # "none"
            /\ \A k \in FutIds : syncPolls[k] = 0
            /\ pc = "bt_mounted" =>
                  /\ children = <<>> /\ content[cur] = Output(cur)
                  /\ attached => cur \in mounted
            /\ pc = "bt_set" =>
                  /\ children = <<cur>>
                  /\ attached => cur \in mounted
            /\ (attached /\ ~fbMounted) => mounted # {})
    /\ [][kind = "Boundary" =>
            /\ (phase = "new" /\ phase' = "live") =>
                  /\ children' = <<>> /\ mounted' = {} /\ ~fbMounted'
                  /\ task' = [k \in FutIds |-> IF k = 0 THEN "queued" ELSE "none"]
                  /\ fut'[0] \in {"pending", "complete"}
            /\ (pc \in BoundaryTaskPcs /\ fbMounted /\ ~fbMounted') =>
                  /\ pc = "bt_set" /\ children = <<cur>>
                  /\ attached => cur \in mounted]_vars

C9_Witness ==
    /\ kind = "Boundary" /\ nRebuilds = 0 /\ pc = "bt_set" /\ cur = 0
    /\ attached /\ fbMounted /\ mounted = {0} /\ children = <<0>>

\* C10: SuspenseBoundary rebuild under the Transition policy.  The fallback is
\* not mounted by the rebuild, and once the new resolution has completed the
\* boundary shows the new content alone: between handlers at most one ready
\* content is mounted, and it is the one in the children slot.
C10_TransitionSwap ==
    (kind = "Boundary" /\ TRANSITION /\ pc = "idle") =>
        /\ Cardinality(mounted) <= 1
        /\ (attached /\ children # <<>>) =>
              (mounted = {children[1]} /\ ~fbMounted)

\* The positions inside SuspenseBoundary::rebuild.
BoundaryRebuildPcs == {"br_locked", "br_taken", "br_fallback", "br_unmounted"}

\* C11: SuspenseBoundary rebuild under the Replace policy.  When the rebuild
\* call returns the children slot is empty, no ready content is in the
\* document (the children shown before are unmounted), the fallback is mounted
\* before the marker when the marker is in the document, the guard is dropped,
\* and exactly one task was spawned: the one awaiting the call's own
\* resolution, which is not polled by the call and is run by the same task
\* code as build's.  Under this policy nothing but the content in the slot is
\* ever in the document.
C11_ReplaceRebuild ==
    /\ []((kind = "Boundary" /\ ~TRANSITION) =>
            mounted \subseteq {children[i] : i \in DOMAIN children} \cup
                (IF pc \in {"bt_mounted"} THEN {cur} ELSE {}) \cup
                (IF pc \in {"br_taken", "br_fallback"}
                 THEN {old_children[i] : i \in DOMAIN old_children} ELSE {}))
    /\ [][(kind = "Boundary" /\ ~TRANSITION /\ pc \in BoundaryRebuildPcs
                /\ pc' = "idle")
            => /\ children' = <<>> /\ mounted' = {}
               /\ attached' => fbMounted'
               /\ guard' = "free"
               /\ task' = [task EXCEPT ![nRebuilds] = "queued"]
               /\ task[nRebuilds] = "none"
               /\ fut'[nRebuilds] \in {"pending", "complete"}
               /\ syncPolls' = syncPolls /\ taskPolls' = taskPolls]_vars

C11_Witness ==
    /\ kind = "Boundary" /\ ~TRANSITION /\ nRebuilds = 1 /\ pc = "idle"
    /\ task[0] = "done" /\ content[0] = Output(0) /\ task[1] = "queued"
    /\ attached /\ fbMounted /\ mounted = {} /\ children = <<>>

\* C12 as stated: the inner boundary resolves independently of the outer one,
\* so the two swaps can occur in either order: as soon as the inner content's
\* computation is complete the inner swap can be the next to happen, whether
\* or not the outer swap has happened.
C12_Original ==
    (kind = "Nested" /\ phase = "live" /\ pc = "idle"
        /\ nested_fut = "complete")
      => ENABLED Nested_inner_task_poll

\* C12, amended: resolving a SuspenseBoundary completes on its first poll,
\* without awaiting its nested content, and yields the boundary itself, not
\* yet built.  So the outer task never waits (it is polled once and swaps on
\* that poll, whatever the inner content's computation is doing), and the
\* outer swap puts the inner boundary in the slot showing the inner fallback,
\* with the inner task freshly spawned and the inner content not polled.  The
\* inner state and its task do not exist before the outer swap, so the inner
\* swap always follows the outer swap; the inner content's computation may
\* complete before or after it.
C12_NestedResolve ==
    /\ [](kind = "Nested" =>
            /\ phase = "live" => fut[0] \in {"complete", "taken"}
            /\ task[0] # "awaiting" /\ taskPolls[0] <= 1
            /\ (pc = "idle" /\ task[0] = "queued") => ENABLED Nested_task_poll
            /\ (nested_built \/ nested_task # "none")
                  => task[0] \in {"locked", "done"}
            /\ nested_children = "Some"
                  => /\ task[0] = "done" /\ children = <<0>> /\ ~fbMounted
                     /\ nested_task = "done"
            /\ nested_fut = "taken" => nested_children = "Some")
    /\ [][(kind = "Nested" /\ pc = "nt_mounted" /\ pc' = "idle")
            => /\ children' = <<0>> /\ ~fbMounted'
               /\ nested_built' /\ nested_children' = "None"
               /\ nested_task' = "queued"
               /\ nested_fut' = nested_fut /\ nested_fut' # "taken"
               /\ nested_mounted' = (IF attached' THEN {"fallback"} ELSE {})]_vars

C12_Witness ==
    /\ kind = "Nested" /\ pc = "idle" /\ attached
    /\ task[0] = "done" /\ children = <<0>> /\ ~fbMounted /\ mounted = {0}
    /\ nested_fut = "complete" /\ nested_task = "queued"
    /\ nested_children = "None" /\ nested_mounted = {"fallback"}

\* A chunk that is markup (not a fragment still to be resolved, and not the
\* resolved fragment appended out of order).
IsMarkup(c) == c.t \in {"ready", "fallback"}

\* The markup of the pass in stream order: what has been streamed and what
\* the builder still holds.
Markup == SelectSeq(out \o buf, IsMarkup)

\* The positions of `out` at which the resolved fragment of node k was appended.
FragmentAt(k) == {i \in DOMAIN out : out[i].t = "fragment" /\ out[i].node = k}

\* A step of the stream, or a computation completing.
StreamStep ==
    \/ StreamBuilder_next_sync
    \/ StreamBuilder_next_ooo
    \/ StreamBuilder_next_async
    \/ \E k \in FutIds : StreamBuilder_next_pending_ooo(k)
    \/ FutureStep

\* C13: out-of-order streaming.  The markup of the nodes stands in source
\* order from the moment each node is emitted.  For a node whose computation
\* was pending at its poll that markup is the fallback, under the node's
\* identity; its resolved fragment is appended to the stream at most once, and
\* exactly once when its computation has completed and the stream has run (the
\* stream can always go on while a fragment is outstanding), after the
\* placeholder, under the placeholder's identity, which no other node's
\* fragment carries.  A node that resolved at its poll has no fragment.  This
\* holds in every order of completion.
C13_OutOfOrder ==
    (kind = "Stream" /\ OUT_OF_ORDER) =>
        /\ Len(Markup) = emitted
        /\ \A i \in DOMAIN Markup : Markup[i].node = i - 1
        /\ \A k \in FutIds : k < emitted =>
              IF SyncResolved(k)
              THEN /\ Markup[k + 1] = Chunk("ready", k, 0)
                   /\ FragmentAt(k) = {}
              ELSE /\ Markup[k + 1] = Chunk("fallback", k, fragId[k])
                   /\ fragId[k] > 0
                   /\ Cardinality(FragmentAt(k)) = (IF task[k] = "done" THEN 1 ELSE 0)
                   /\ \A i \in FragmentAt(k) :
                         /\ out[i].id = fragId[k]
                         /\ \E j \in 1..(i - 1) : out[j] = Chunk("fallback", k, fragId[k])
                   /\ \A i \in DOMAIN out :
                         (out[i].t = "fragment" /\ out[i].id = fragId[k])
                            => out[i].node = k
        /\ (phase = "streaming" /\ (buf # <<>> \/ ooo # {})) => ENABLED StreamStep
        /\ (phase = "streaming" /\ buf = <<>> /\ ooo = {})
              => \A k \in FutIds : k < emitted => (SyncResolved(k) \/ task[k] = "done")

C13_Witness ==
    /\ kind = "Stream" /\ OUT_OF_ORDER /\ buf = <<>> /\ ooo = {}
    /\ \E i, j \in DOMAIN out :
          /\ i < j
          /\ out[i] = Chunk("fragment", 1, fragId[1])
          /\ out[j] = Chunk("fragment", 0, fragId[0])

\* C14: in-order streaming, sibling and nested nodes.  What has been streamed
\* is at every moment the resolved markup of the first nodes in source-tree
\* order, with none left out: nothing that follows a pending node is streamed
\* before that node's resolved markup.  What the builder still holds is in
\* source order behind it.  While chunks are left the stream or a computation
\* can go on, and when none is left the output is the resolved markup of
\* every node of the pass, the nested one included, in source-tree order,
\* whatever the order in which the computations completed.
C14_InOrder ==
    (kind = "Stream" /\ ~OUT_OF_ORDER) =>
        /\ \A i \in DOMAIN out : out[i] = Chunk("ready", i - 1, 0)
        /\ \A i \in DOMAIN buf :
              /\ buf[i].node >= Len(out)
              /\ i > 1 => buf[i - 1].node < buf[i].node
              /\ buf[i].t \in {"ready", "async"}
        /\ (phase = "streaming" /\ buf # <<>>) => ENABLED StreamStep
        /\ (phase = "streaming" /\ buf = <<>>) => Len(out) = emitted

C14_Witness ==
    /\ kind = "Stream" /\ ~OUT_OF_ORDER /\ nesting
    /\ phase = "streaming" /\ buf = <<>> /\ Len(out) = 3
    /\ SyncResolved(2) /\ task[0] = "done" /\ task[1] = "done"
    /\ taskPolls[0] > 1 /\ taskPolls[1] > 1

\* The chunks of node n in a sequence of chunks, in order.
ChunksOf(chunks, n) == SelectSeq(chunks, LAMBDA c : c.node = n)

\* Node n is polled by the caller in this step, and the poll is pending.
PolledPending(n) == syncPolls'[n] # syncPolls[n] /\ fut'[n] = "pending"

\* C15 as stated: the emission of a node whose poll is pending writes the
\* fallback markup at the current position in both disciplines, and the
\* out-of-order discipline registers a deferred fragment as well.
C15_Original ==
    [][kind = "Stream" => \A n \in FutIds : PolledPending(n) =>
          /\ \E i \in DOMAIN buf' : buf'[i] = Chunk("fallback", n, fragId'[n])
          /\ OUT_OF_ORDER =>
                \E i \in DOMAIN buf' : buf'[i] = Chunk("ooo", n, fragId'[n])]_vars

\* C15, amended: the emission of a node whose poll is pending streams nothing
\* by itself and registers exactly one deferred fragment for the node, under
\* the identity the builder is at.  Under the out-of-order discipline it
\* writes the fallback markup at the current position, followed by the
\* fragment's registration.  Under the in-order discipline it writes no
\* fallback: the in-order fragment, registered at the current position, is
\* the only chunk of the node.
C15_PendingEmit ==
    [][kind = "Stream" => \A n \in FutIds : PolledPending(n) =>
          /\ out' = out
          /\ fragId'[n] > 0 /\ task'[n] = "queued" /\ owner'[n] = "fragment"
          /\ IF OUT_OF_ORDER
             THEN /\ ChunksOf(buf', n) = <<Chunk("fallback", n, fragId'[n]),
                                           Chunk("ooo", n, fragId'[n])>>
                  /\ buf' = buf \o ChunksOf(buf', n)
             ELSE /\ ChunksOf(buf', n) = <<Chunk("async", n, fragId'[n])>>
                  /\ n = emitted => buf' = Append(buf, Chunk("async", n, fragId'[n]))]_vars

C15_Witness ==
    /\ kind = "Stream" /\ ~OUT_OF_ORDER /\ phase = "live"
    /\ buf = <<Chunk("async", 0, fragId[0]), Chunk("ready", 1, 0)>>
    /\ fut[0] = "pending" /\ task[0] = "queued" /\ out = <<>>

\* C16: every HTML emission path of a Suspend node polls the computation
\* once and, when it is already complete, writes the ready markup at the
\* current position and no fallback markup: the streaming emission in both
\* disciplines, and the synchronous emission into a String.
C16_EmitFastPath ==
    /\ kind = "Stream" =>
          \A k \in FutIds : fut[k] # "absent" =>
              /\ syncPolls[k] = 1
              /\ SyncResolved(k) =>
                    ChunksOf(out \o buf, k) = <<Chunk("ready", k, 0)>>
    /\ (kind = "Html" /\ phase = "rendered") =>
          /\ syncPolls[0] = 1
          /\ fut[0] \in {"complete", "taken"} =>
                ChunksOf(out, 0) = <<Chunk("ready", 0, 0)>>

\* Node n was emitted into the builder of the pass (and not into the builder
\* of the fragment it is nested in).
InPassBuilder(n) ==
    /\ syncPolls[n] = 1
    /\ NestedIn(0) = <<n>> => SyncResolved(0)

\* The nodes the caller polls in this step.
PolledNow == {n \in FutIds : syncPolls'[n] # syncPolls[n]}

\* C17 as stated: within one pass the identity counter only increases, it is
\* advanced exactly once per deferred fragment, that is only for the nodes
\* whose computation is pending at the poll, and any two deferred fragments
\* of the pass carry different identities.
C17_Original ==
    /\ [][kind = "Stream" =>
            /\ nextId' >= nextId
            /\ nextId' - nextId = Cardinality({n \in PolledNow : fut'[n] = "pending"})]_vars
    /\ [](kind = "Stream" =>
            \A j, k \in FutIds :
               (j # k /\ fragId[j] > 0 /\ fragId[k] > 0) => fragId[j] # fragId[k])

\* C17, amended: the identity counter of the pass's builder only increases.
\* It is advanced exactly once per Suspend node emitted into that builder,
\* whether the node's poll resolves or is pending, and by nothing else: its
\* value is the number of nodes emitted into the builder.  The identity of a
\* deferred fragment is the counter's value at its node, so the fragments
\* registered in the builder of the pass carry different identities,
\* increasing in source order (not consecutive when a node between them
\* resolved).  The builder of an in-order fragment starts from the fragment's
\* identity, so the node nested in it gets the next identity after its
\* parent's.
C17_Identity ==
    /\ [](kind = "Stream" =>
            /\ nextId = Cardinality({n \in FutIds : InPassBuilder(n)})
            /\ \A k \in FutIds : fragId[k] > 0 <=> (syncPolls[k] = 1 /\ ~SyncResolved(k))
            /\ \A k \in FutIds : (InPassBuilder(k) /\ fragId[k] > 0) =>
                  /\ fragId[k] = Cardinality({n \in FutIds : InPassBuilder(n) /\ n <= k})
                  /\ \A j \in FutIds :
                        (j < k /\ InPassBuilder(j) /\ fragId[j] > 0)
                           => fragId[j] < fragId[k]
            /\ \A k \in FutIds : (syncPolls[k] = 1 /\ ~InPassBuilder(k) /\ fragId[k] > 0)
                  => fragId[k] = fragId[0] + 1)
    /\ [][kind = "Stream" =>
            /\ nextId' >= nextId
            /\ nextId' - nextId = (IF emitted' # emitted THEN Cardinality(PolledNow)
                                   ELSE 0)]_vars

C17_Witness ==
    /\ kind = "Stream" /\ OUT_OF_ORDER /\ emitted = 3 /\ nextId = 3
    /\ fragId[0] = 1 /\ SyncResolved(1) /\ fragId[1] = 0 /\ fragId[2] = 3

\* Everything but the phase of the program.
allButPhase ==
    <<kind, TRANSITION, fallback, nestVars, streamVars, attached, nRebuilds,
      futVars, task, pc, cur, guard, blocked, eitherVars, innerVars, domVars,
      lastWriter>>

\* C18: SuspenseBoundary with its fallback taken.  A boundary constructed with
\* a fallback of None exists (construction does not fail) until it is built.
\* Its build panics in expect(): no state container is made (no fallback
\* built, nothing in the slot, nothing mounted), no task is spawned, nothing
\* else changes either, and nothing runs afterwards; and this is the only way
\* to that panic.  A rebuild of an existing state with a boundary whose
\* fallback is None goes through like any other: it does not panic or block,
\* it spawns its task, and under the Replace policy the fallback it mounts is
\* the one built into the state.
C18_FallbackTaken ==
    /\ [][(kind = "Boundary" /\ phase = "new" /\ phase' \in {"live", "aborted"}) =>
            IF fallback = "None"
            THEN phase' = "aborted" /\ UNCHANGED allButPhase
            ELSE phase' = "live" /\ fbBuilt' /\ task'[0] = "queued"]_vars
    /\ [](phase = "aborted" =>
            /\ kind = "Boundary" /\ fallback = "None" /\ nRebuilds = 0
            /\ ~fbBuilt /\ ~fbMounted /\ children = <<>> /\ mounted = {}
            /\ \A k \in FutIds : task[k] = "none" /\ fut[k] = "absent"
            /\ ~ENABLED Next)
    /\ [][phase' = "aborted" => (phase = "new" /\ fallback = "None")]_vars
    /\ [][(kind = "Boundary" /\ pc \in BoundaryRebuildPcs) =>
            /\ phase' = "live" /\ ~blocked' /\ fbBuilt'
            /\ pc' = "idle" =>
                  /\ task'[nRebuilds] = "queued"
                  /\ (~TRANSITION /\ attached') => fbMounted']_vars

C18_Witness ==
    /\ kind = "Boundary" /\ fallback = "None" /\ phase = "live" /\ pc = "idle"
    /\ ~TRANSITION /\ nRebuilds = 1 /\ task[0] = "done" /\ task[1] = "done"
    /\ attached /\ children # <<>> /\ ~fbMounted

\* A node or state is at hand, and no handler is running: the caller can
\* call an operation.
Callable == pc = "idle" /\ ~blocked

\* C19: the operations whose body is todo!().  Each of them can be invoked
\* whenever its receiver is at hand (try_build, to_html_with_buf and hydrate on
\* a node not yet built, try_rebuild on a built state, and for
\* SuspenseBoundary, whose fallible state is (), on any), with every policy,
\* fallback and state.  The invocation panics: no state container, no
\* computation, no task, no mounted content and no output buffer is changed
\* by it, no task is spawned, and nothing runs afterwards, so no error value
\* is returned to anyone.
C19_Unimplemented ==
    /\ [][(phase' \in Unimplemented /\ phase' # phase) =>
            /\ phase \in {"new", "live"}
            /\ UNCHANGED allButPhase]_vars
    /\ [](phase \in Unimplemented => ~ENABLED Next)
    /\ []((kind = "Suspend" /\ Callable) =>
            /\ phase = "new" => ENABLED Suspend_try_build
            /\ phase = "live" => ENABLED Suspend_try_rebuild)
    /\ []((kind = "Boundary" /\ Callable) =>
            /\ phase = "new" => /\ ENABLED SuspenseBoundary_try_build
                                /\ ENABLED SuspenseBoundary_to_html
                                /\ ENABLED SuspenseBoundary_hydrate
            /\ phase \in {"new", "live"} => ENABLED SuspenseBoundary_try_rebuild)

C19_Witness ==
    /\ kind = "Suspend" /\ phase = "try_rebuild" /\ attached
    /\ mode = "Fallback" /\ fbMounted /\ task[0] = "awaiting"
    /\ fut[0] = "complete"

\* The tasks spawned so far.
Spawned == {k \in FutIds : task[k] # "none"}

C21_Tracked ==
    (kind = "Boundary" /\ pc = "idle") =>
        /\ mounted \subseteq {children[i] : i \in DOMAIN children}
        /\ children # <<>> => ~fbMounted
        /\ attached => (children # <<>> => mounted = {children[1]})
        /\ ~attached => (mounted = {} /\ ~fbMounted)

====
